---- MODULE Spec2Model ----
(***************************************************************************)
(* A model of the TCP transfer benchmark of GRS_PA02 (MT25091): the        *)
(* thread-per-connection servers (two-copy A1, one-copy A2, zero-copy A3), *)
(* the A1/A2 load-generator sessions and the message helpers of            *)
(* MT25091_Common.h; and of the process-based stress program of GRS_PA01.  *)
(*                                                                         *)
(* The module holds several specifications over one set of variables:      *)
(*   Spec      the server process: main's accept loop, admission control,  *)
(*             the session threads and the shutdown wait                   *)
(*   FairSpec  Spec with the fairness the thread scheduler gives           *)
(*   ZcSpec    one zero-copy session of the A3 server and its socket       *)
(*   ZcFairSpec  ZcSpec with the session thread scheduled fairly           *)
(*   EchoSpec  one A1/A2 client session and the server session serving it  *)
(*   ClientSpec  the load generator process and its sessions               *)
(*   MsgSpec   allocate_message and serialize_message for one size         *)
(*   WireSpec  the bytes of one message sent two-copy and one-copy         *)
(*   LockSpec  the accesses to num_active_clients, statement by statement  *)
(*   ForkSpec  Program A of GRS_PA01: the parent and the children it forks *)
(* Each specification moves its own variables and leaves the others at     *)
(* their initial value.                                                    *)
(***************************************************************************)
EXTENDS Integers, Sequences, FiniteSets, TLC

(***************************************************************************)
(* Bounds of the model.                                                    *)
(***************************************************************************)
\* connection attempts made against one server run
MaxConn == 3
\* largest value of the -t option (max_threads) that is explored
MaxThreadsOpt == 2

Conns == 1..MaxConn

\* requests one zero-copy session is offered
MaxZcRequests == 10
\* the -s option (msg_size) of the zero-copy session
ZcMsgSize == 16
\* requests one client session may send before its duration is over
MaxExchanges == 3
\* the -s option (msg_size) of the client-server pair
EchoMsgSize == 8
\* allocate_message is run for every size from 0 to MaxSmallSize and for
\* the sizes of LargeSizes
MaxSmallSize == 24
\* largest value of the client's -t option (threads) that is explored
MaxClientThreads == 2
\* requests one session of the load generator may send before its duration
\* is over
MaxRoundTrips == 2

Slots == 1..MaxClientThreads

\* largest value of Program A's num_processes argument that is explored
MaxProcesses == 4

Children == 1..MaxProcesses

(***************************************************************************)
(* The message helpers of MT25091_Common.h.                                *)
(***************************************************************************)
\* #define NUM_STRING_FIELDS 8
NUM_STRING_FIELDS == 8

\* a segment size that is not clamped to at least one byte
PerFieldSize_NoClamp(field_size) == field_size \div NUM_STRING_FIELDS

\* per_field_size = field_size / NUM_STRING_FIELDS; if 0 then 1
\* (allocate_message lines 87-88, serialize_message lines 119-120)
PerFieldSize(field_size) ==
    LET quotient == field_size \div NUM_STRING_FIELDS
    IN  IF quotient = 0 THEN 1 ELSE quotient

\* *total_size = per_field_size * NUM_STRING_FIELDS (serialize_message line 122)
TotalSize(field_size) == PerFieldSize(field_size) * NUM_STRING_FIELDS

(***************************************************************************)
(* State of the server process (MT25091_Part_A1_Server.c; main and the     *)
(* session epilogue are the same code in the A2 and A3 servers).           *)
(***************************************************************************)
VARIABLES
    running,             \* server_config.running (volatile int)
    max_threads,         \* server_config.max_threads / main's max_threads
    num_active_clients,  \* static int num_active_clients
    client_id,           \* main's client_id counter
    main_pc,             \* where main is
    new_socket,          \* the connection main holds between accept and spawn (0: none)
    server_fd_open,      \* the listening socket is open
    rcvtimeo_inherited,  \* accepted sockets carry the listener's SO_RCVTIMEO
    sock,                \* per connection: state of the server side socket
    peer,                \* per connection: what the remote end has done
    sess                 \* per connection: where its handle_client thread is

(***************************************************************************)
(* State of one zero-copy server session (handle_client of                 *)
(* MT25091_Part_A3_Server.c) and of the kernel side of its socket.         *)
(***************************************************************************)
VARIABLES
    zc_pc,               \* where the session is
    zc_enabled,          \* setsockopt(SO_ZEROCOPY) succeeded
    zc_msg,              \* the Message and its 8 fields: "none", "allocated", "freed"
    pending_completions, \* int pending_completions
    zc_ctx,              \* the statistics of the ClientContext
    kern_inflight,       \* zero-copy sends whose pages the kernel still references
    errq                 \* completion notifications queued on the socket error queue

(***************************************************************************)
(* State of one client session (client_thread of MT25091_Part_A1_Client.c, *)
(* the same loop in the A2 client) paired with the server session that     *)
(* serves it (handle_client of the A1 server, the same loop in the A2      *)
(* server), and of the two directions of their TCP stream.                 *)
(***************************************************************************)
VARIABLES
    msg_size,            \* ctx->msg_size, the -s option of both programs
    cl_running,          \* the client's static volatile int running
    cl_pc,               \* where client_thread is
    cl_ctx,              \* the statistics of the client's ClientContext
    total_recv,          \* client_thread: ssize_t total_recv
    cl_open,             \* the client's socket is open
    sv_pc,               \* where the server's handle_client is
    sv_ctx,              \* the statistics of the server's ClientContext
    sv_open,             \* the server's connection socket is open
    c2s,                 \* bytes sent by the client and not yet received by the server
    s2c                  \* bytes sent by the server and not yet received by the client

(***************************************************************************)
(* State of one allocate_message / serialize_message run                   *)
(* (MT25091_Common.h) for the size msg_size.                               *)
(***************************************************************************)
VARIABLES
    am_pc,               \* where the run is
    am_header,           \* the Message struct is allocated
    am_fields,           \* number of fields field[0..] currently allocated
    am_i,                \* allocate_message: the loop index i
    wire,                \* the bytes one sendmsg of the 8 iovec entries put on the stream
    per_field_size,      \* allocate_message: size_t per_field_size
    total_size           \* serialize_message: *total_size

(***************************************************************************)
(* State of the load generator process (main of MT25091_Part_A1_Client.c,  *)
(* the same code in the A2 client) and of the client_thread sessions it    *)
(* creates; the sessions share the flag cl_running and the size msg_size.  *)
(***************************************************************************)
VARIABLES
    threads,             \* main: int threads, the -t option
    duration,            \* main: int duration, the -d option
    cm_pc,               \* where main is
    cm_i,                \* main: the loop index i (counted from 1)
    contexts,            \* main: ClientContext **contexts, one slot per index
    ct_pc,               \* per index: where its client_thread is
    ct_ctx,              \* per index: the statistics of its ClientContext
    totals,              \* main: total_bytes_sent, total_bytes_recv, total_messages,
                         \*       total_latency, active_threads
    summary              \* what the SUMMARY block has printed

(***************************************************************************)
(* State of clients_mutex and of the threads of the server at the          *)
(* statements that lock it or touch num_active_clients                     *)
(* (MT25091_Part_A1_Server.c; the same statements in the A2 and A3         *)
(* servers).                                                               *)
(***************************************************************************)
VARIABLES
    clients_mutex,       \* static pthread_mutex_t clients_mutex: the thread that holds it
    lk_pc                \* per thread: the statement it is at

(***************************************************************************)
(* State of the process-based stress program (main of                      *)
(* GRS_PA01/MT25091_Part_A_Program_A.c) and of the child processes it      *)
(* forks.                                                                  *)
(***************************************************************************)
VARIABLES
    num_processes,       \* main: int num_processes, argv[2] or the default 2
    pa_pc,               \* where the parent is
    pa_i,                \* main: the loop index i of the loop the parent is in
    child                \* per child, in the order of creation: its state

serverVars == <<running, max_threads, num_active_clients, client_id, main_pc,
                new_socket, server_fd_open, rcvtimeo_inherited, sock, peer, sess>>

zcVars == <<zc_pc, zc_enabled, zc_msg, pending_completions, zc_ctx, kern_inflight, errq>>

echoVars == <<msg_size, cl_running, cl_pc, cl_ctx, total_recv, cl_open,
              sv_pc, sv_ctx, sv_open, c2s, s2c>>

msgVars == <<am_pc, am_header, am_fields, am_i, wire, per_field_size, total_size>>

clientVars == <<threads, duration, cm_pc, cm_i, contexts, ct_pc, ct_ctx, totals, summary>>

lockVars == <<clients_mutex, lk_pc>>

forkVars == <<num_processes, pa_pc, pa_i, child>>

\* everything but the state of the server process
sessionVars == <<zcVars, echoVars, msgVars, clientVars, lockVars, forkVars>>

vars == <<serverVars, sessionVars>>

SockStates == {"none", "queued", "open", "closed"}
PeerStates == {"idle", "sent", "closed"}
SessStates == {"none", "start", "top", "recv", "send", "cleanup", "done", "killed"}
MainStates == {"socket", "socket_failed", "bind", "bind_failed", "listen",
               "listen_failed", "exit_failure",
               "loop", "accept", "admit", "alloc_ctx", "create", "detach",
               "shutdown", "wait", "done", "crashed"}

\* a handle_client thread that exists and has not yet given its slot back
SessionRunning(c) == sess[c] \in {"start", "top", "recv", "send", "cleanup"}

RunningSessions == {c \in Conns : SessionRunning(c)}

\* main, lines 132-151: the options are parsed, server_config is filled in
\* (running = 1) and the signal handlers are installed; main is about to
\* create the server socket. max_threads is a positive -t value. main sets
\* SO_RCVTIMEO on the listening socket only (line 181) and handle_client
\* sets no timeout on the connection socket: whether an accepted socket
\* carries the listener's timeout is left to the system (it is copied when
\* the connection is established, which can precede the first setsockopt),
\* so both cases are explored.
ServerInit ==
    /\ running = 1
    /\ max_threads \in 1..MaxThreadsOpt
    /\ num_active_clients = 0
    /\ client_id = 0
    /\ main_pc = "socket"
    /\ new_socket = 0
    /\ server_fd_open = FALSE
    /\ rcvtimeo_inherited \in BOOLEAN
    /\ sock = [c \in Conns |-> "none"]
    /\ peer = [c \in Conns |-> "idle"]
    /\ sess = [c \in Conns |-> "none"]

(***************************************************************************)
(* The environment of the server: the shutdown signal and the remote ends. *)
(***************************************************************************)
\* a handler that flips the running flag on every signal
signal_handler_Toggle ==
    /\ running' = 1 - running
    /\ UNCHANGED sessionVars
    /\ UNCHANGED <<max_threads, num_active_clients, client_id, main_pc, new_socket,
                   server_fd_open, rcvtimeo_inherited, sock, peer, sess>>

\* signal_handler: SIGINT / SIGTERM clears the running flag
signal_handler ==
    /\ running = 1
    /\ running' = 0
    /\ UNCHANGED sessionVars
    /\ UNCHANGED <<max_threads, num_active_clients, client_id, main_pc, new_socket,
                   server_fd_open, rcvtimeo_inherited, sock, peer, sess>>

\* the accept queue is first-in first-out: connections are numbered in the
\* order in which their handshake completes
NextConn == CHOOSE c \in Conns : sock[c] = "none" /\ \A d \in Conns : d < c => sock[d] # "none"

\* the server socket is bound and listening (after line 167, until it is closed)
Listening ==
    /\ server_fd_open
    /\ main_pc \notin {"socket", "socket_failed", "bind", "bind_failed", "listen", "listen_failed"}

\* a remote client completes connect() against the listening socket
PeerConnect ==
    /\ Listening
    /\ \E c \in Conns : sock[c] = "none"
    /\ sock' = [sock EXCEPT ![NextConn] = "queued"]
    /\ UNCHANGED sessionVars
    /\ UNCHANGED <<running, max_threads, num_active_clients, client_id, main_pc,
                   new_socket, server_fd_open, rcvtimeo_inherited, peer, sess>>

\* a request of the remote client arrives on a connection. Only the
\* session's recv observes the arrival, so it is taken when the session is
\* at its recv: an earlier arrival leads to the same states
PeerSend(c) ==
    /\ sess[c] = "recv"
    /\ peer[c] = "idle"
    /\ peer' = [peer EXCEPT ![c] = "sent"]
    /\ UNCHANGED sessionVars
    /\ UNCHANGED <<running, max_threads, num_active_clients, client_id, main_pc,
                   new_socket, server_fd_open, rcvtimeo_inherited, sock, sess>>

\* the remote client closes (or resets) its end. Only the session's recv
\* and send observe it, so it is taken when the session is at one of them
PeerClose(c) ==
    /\ sess[c] \in {"recv", "send"}
    /\ peer[c] # "closed"
    /\ peer' = [peer EXCEPT ![c] = "closed"]
    /\ UNCHANGED sessionVars
    /\ UNCHANGED <<running, max_threads, num_active_clients, client_id, main_pc,
                   new_socket, server_fd_open, rcvtimeo_inherited, sock, sess>>

(***************************************************************************)
(* main: the server socket (lines 153-169).                                *)
(***************************************************************************)
\* create_tcp_socket, MT25091_Common.h lines 135-153: socket(), then
\* SO_REUSEADDR and TCP_NODELAY; each of the three calls can fail
main_create_tcp_socket ==
    /\ main_pc = "socket"
    /\ \E socket_ok \in BOOLEAN, options_ok \in BOOLEAN :
          /\ server_fd_open' = socket_ok
          /\ main_pc' = IF socket_ok /\ options_ok THEN "bind" ELSE "socket_failed"
    /\ UNCHANGED sessionVars
    /\ UNCHANGED <<running, max_threads, num_active_clients, client_id, new_socket,
                   rcvtimeo_inherited, sock, peer, sess>>

\* bind(server_fd, ...) < 0, line 162
main_bind ==
    /\ main_pc = "bind"
    /\ \E ok \in BOOLEAN : main_pc' = IF ok THEN "listen" ELSE "bind_failed"
    /\ UNCHANGED sessionVars
    /\ UNCHANGED <<running, max_threads, num_active_clients, client_id, new_socket,
                   server_fd_open, rcvtimeo_inherited, sock, peer, sess>>

\* listen(server_fd, max_threads) < 0, line 167; on success main goes on to
\* the accept loop
main_listen ==
    /\ main_pc = "listen"
    /\ \E ok \in BOOLEAN : main_pc' = IF ok THEN "loop" ELSE "listen_failed"
    /\ UNCHANGED sessionVars
    /\ UNCHANGED <<running, max_threads, num_active_clients, client_id, new_socket,
                   server_fd_open, rcvtimeo_inherited, sock, peer, sess>>

\* the places where a failed call is handled by HANDLE_ERROR
FailedCalls == {"socket_failed", "bind_failed", "listen_failed"}

\* an error handling that reports the failure and carries on with the next call
HANDLE_ERROR_CarriesOn ==
    /\ main_pc \in FailedCalls
    /\ main_pc' = CASE main_pc = "socket_failed" -> "bind"
                     [] main_pc = "bind_failed" -> "listen"
                     [] main_pc = "listen_failed" -> "loop"
    /\ server_fd_open' = TRUE
    /\ UNCHANGED sessionVars
    /\ UNCHANGED <<running, max_threads, num_active_clients, client_id, new_socket,
                   rcvtimeo_inherited, sock, peer, sess>>

\* HANDLE_ERROR(msg), MT25091_Common.h lines 37-38: perror and
\* exit(EXIT_FAILURE); the exit closes the server socket
HANDLE_ERROR ==
    /\ main_pc \in FailedCalls
    /\ main_pc' = "exit_failure"
    /\ server_fd_open' = FALSE
    /\ UNCHANGED sessionVars
    /\ UNCHANGED <<running, max_threads, num_active_clients, client_id, new_socket,
                   rcvtimeo_inherited, sock, peer, sess>>

(***************************************************************************)
(* main: the accept loop (lines 176-237).                                  *)
(***************************************************************************)
\* the connection at the head of the accept queue
HeadOfQueue == CHOOSE c \in Conns : sock[c] = "queued" /\ \A d \in Conns : d < c => sock[d] # "queued"

\* while (server_config.running), line 176; leaving the loop falls to line 239
main_loop_test ==
    /\ main_pc = "loop"
    /\ main_pc' = IF running # 0 THEN "accept" ELSE "shutdown"
    /\ UNCHANGED sessionVars
    /\ UNCHANGED <<running, max_threads, num_active_clients, client_id, new_socket,
                   server_fd_open, rcvtimeo_inherited, sock, peer, sess>>

\* accept returns a connection, line 183
main_accept ==
    /\ main_pc = "accept"
    /\ \E c \in Conns : sock[c] = "queued"
    /\ new_socket' = HeadOfQueue
    /\ sock' = [sock EXCEPT ![HeadOfQueue] = "open"]
    /\ main_pc' = "admit"
    /\ UNCHANGED sessionVars
    /\ UNCHANGED <<running, max_threads, num_active_clients, client_id,
                   server_fd_open, rcvtimeo_inherited, peer, sess>>

\* accept fails, lines 185-193: the one second SO_RCVTIMEO of the listening
\* socket expires with nothing queued (EAGAIN), or accept is interrupted by
\* the signal or fails otherwise; both paths continue the loop
main_accept_fail ==
    /\ main_pc = "accept"
    /\ \E err \in {"EAGAIN", "other"} :
          err = "EAGAIN" => ~ \E c \in Conns : sock[c] = "queued"
    /\ main_pc' = "loop"
    /\ UNCHANGED sessionVars
    /\ UNCHANGED <<running, max_threads, num_active_clients, client_id, new_socket,
                   server_fd_open, rcvtimeo_inherited, sock, peer, sess>>

\* a faulty admission test that lets one connection too many in
AtCapacity_OffByOne == num_active_clients > max_threads

\* if (num_active_clients >= max_threads), line 197
AtCapacity == num_active_clients >= max_threads

\* a rejection that keeps the connection waiting for a free slot
main_reject_Queued ==
    /\ sock' = [sock EXCEPT ![new_socket] = "queued"]
    /\ new_socket' = 0
    /\ main_pc' = "loop"
    /\ UNCHANGED num_active_clients

\* the rejection, lines 198-201: unlock, close(new_socket), continue
main_reject ==
    /\ sock' = [sock EXCEPT ![new_socket] = "closed"]
    /\ new_socket' = 0
    /\ main_pc' = "loop"
    /\ UNCHANGED num_active_clients

\* admission control under clients_mutex, lines 196-204
main_admit ==
    /\ main_pc = "admit"
    /\ IF AtCapacity
          THEN main_reject
          ELSE /\ num_active_clients' = num_active_clients + 1
               /\ main_pc' = "alloc_ctx"
               /\ UNCHANGED <<sock, new_socket>>
    /\ UNCHANGED sessionVars
    /\ UNCHANGED <<running, max_threads, client_id, server_fd_open,
                   rcvtimeo_inherited, peer, sess>>

\* malloc of the ClientContext, lines 207-221; on failure the connection is
\* closed and the slot given back under the mutex
main_alloc_ctx ==
    /\ main_pc = "alloc_ctx"
    /\ \E ok \in BOOLEAN :
          IF ok
             THEN /\ client_id' = client_id + 1
                  /\ main_pc' = "create"
                  /\ UNCHANGED <<sock, new_socket, num_active_clients>>
             ELSE /\ sock' = [sock EXCEPT ![new_socket] = "closed"]
                  /\ num_active_clients' = num_active_clients - 1
                  /\ new_socket' = 0
                  /\ main_pc' = "loop"
                  /\ UNCHANGED client_id
    /\ UNCHANGED sessionVars
    /\ UNCHANGED <<running, max_threads, server_fd_open, rcvtimeo_inherited, peer, sess>>

\* a pthread_create failure path that does not give the slot back
main_create_NoGiveBack ==
    /\ main_pc = "create"
    /\ \E ok \in BOOLEAN :
          IF ok
             THEN /\ sess' = [sess EXCEPT ![new_socket] = "start"]
                  /\ main_pc' = "detach"
                  /\ UNCHANGED <<sock, new_socket, num_active_clients>>
             ELSE /\ sock' = [sock EXCEPT ![new_socket] = "closed"]
                  /\ new_socket' = 0
                  /\ main_pc' = "loop"
                  /\ UNCHANGED <<sess, num_active_clients>>
    /\ UNCHANGED sessionVars
    /\ UNCHANGED <<running, max_threads, client_id, server_fd_open,
                   rcvtimeo_inherited, peer>>

\* pthread_create, lines 224-233; on failure the connection is closed, the
\* context freed and the slot given back under the mutex
main_create ==
    /\ main_pc = "create"
    /\ \E ok \in BOOLEAN :
          IF ok
             THEN /\ sess' = [sess EXCEPT ![new_socket] = "start"]
                  /\ main_pc' = "detach"
                  /\ UNCHANGED <<sock, new_socket, num_active_clients>>
             ELSE /\ sock' = [sock EXCEPT ![new_socket] = "closed"]
                  /\ num_active_clients' = num_active_clients - 1
                  /\ new_socket' = 0
                  /\ main_pc' = "loop"
                  /\ UNCHANGED sess
    /\ UNCHANGED sessionVars
    /\ UNCHANGED <<running, max_threads, client_id, server_fd_open,
                   rcvtimeo_inherited, peer>>

\* the process is ended by a fault (SIGSEGV): every thread of it ends where
\* it is and the kernel closes its sockets
process_crash ==
    /\ main_pc' = "crashed"
    /\ new_socket' = 0
    /\ server_fd_open' = FALSE
    /\ sess' = [c \in Conns |-> IF SessionRunning(c) THEN "killed" ELSE sess[c]]
    /\ sock' = [c \in Conns |-> IF sock[c] \in {"queued", "open"} THEN "closed" ELSE sock[c]]

\* the context main reads at line 236 has been freed: the new thread has
\* already run to the free(ctx) of its cleanup (line 114)
ctx_freed == sess[new_socket] = "done"

\* pthread_detach(client_threads[ctx->client_id % MAX_CLIENTS]), line 236.
\* main reads ctx->client_id after the thread that owns ctx has been
\* started. When that thread has freed ctx the read is of freed memory,
\* whose first bytes the allocator has overwritten: the index is then any
\* value of -63..63 and pthread_detach is given a slot of client_threads
\* (or memory before it) that holds the id of another thread, which it
\* refuses, or no thread id at all (0 in a slot never used), which it
\* dereferences.
main_detach ==
    /\ main_pc = "detach"
    /\ \/ /\ new_socket' = 0
          /\ main_pc' = "loop"
          /\ UNCHANGED <<server_fd_open, sock, sess>>
       \/ /\ ctx_freed
          /\ process_crash
    /\ UNCHANGED sessionVars
    /\ UNCHANGED <<running, max_threads, num_active_clients, client_id,
                   rcvtimeo_inherited, peer>>

(***************************************************************************)
(* main: shutdown (lines 239-248).                                         *)
(***************************************************************************)
\* a shutdown that leaves the listening socket open while it waits
main_shutdown_KeepsListening ==
    /\ main_pc = "shutdown"
    /\ main_pc' = "wait"
    /\ UNCHANGED sessionVars
    /\ UNCHANGED <<running, max_threads, num_active_clients, client_id, new_socket,
                   server_fd_open, rcvtimeo_inherited, sock, peer, sess>>

\* close(server_fd), line 240
main_shutdown ==
    /\ main_pc = "shutdown"
    /\ server_fd_open' = FALSE
    /\ main_pc' = "wait"
    /\ UNCHANGED sessionVars
    /\ UNCHANGED <<running, max_threads, num_active_clients, client_id, new_socket,
                   rcvtimeo_inherited, sock, peer, sess>>

\* a shutdown that does not wait for the sessions
ShutdownWaitOver_NoWait == TRUE

\* the test of while (num_active_clients > 0), line 243, when it ends the wait
ShutdownWaitOver == ~ (num_active_clients > 0)

\* the wait for the remaining sessions, lines 243-248; while the count is
\* positive main sleeps 100 ms and tests again, which changes nothing
main_wait ==
    /\ main_pc = "wait"
    /\ ShutdownWaitOver
    /\ main_pc' = "done"
    /\ UNCHANGED sessionVars
    /\ UNCHANGED <<running, max_threads, num_active_clients, client_id, new_socket,
                   server_fd_open, rcvtimeo_inherited, sock, peer, sess>>

(***************************************************************************)
(* handle_client as the accept loop sees it (lines 34-122): the thread of  *)
(* one admitted connection.                                                *)
(***************************************************************************)
\* allocate_message, serialize_message and malloc of the receive buffer,
\* lines 45-66; any failure jumps to cleanup
handle_client_start(c) ==
    /\ sess[c] = "start"
    /\ \E ok \in BOOLEAN :
          sess' = [sess EXCEPT ![c] = IF ok THEN "top" ELSE "cleanup"]
    /\ UNCHANGED sessionVars
    /\ UNCHANGED <<running, max_threads, num_active_clients, client_id, main_pc,
                   new_socket, server_fd_open, rcvtimeo_inherited, sock, peer>>

\* while (*(ctx->running)), line 69
handle_client_loop_test(c) ==
    /\ sess[c] = "top"
    /\ sess' = [sess EXCEPT ![c] = IF running # 0 THEN "recv" ELSE "cleanup"]
    /\ UNCHANGED sessionVars
    /\ UNCHANGED <<running, max_threads, num_active_clients, client_id, main_pc,
                   new_socket, server_fd_open, rcvtimeo_inherited, sock, peer>>

\* recv returns, lines 73-83. It returns bytes once the peer has sent some,
\* 0 or ECONNRESET once the peer has closed, and EAGAIN after the receive
\* timeout when the socket carries one; otherwise the call stays blocked.
\* handle_client sets no timeout on the connection socket itself.
handle_client_recv(c) ==
    /\ sess[c] = "recv"
    /\ \/ /\ peer[c] = "sent"
          /\ peer' = [peer EXCEPT ![c] = "idle"]
          /\ sess' = [sess EXCEPT ![c] = "send"]
       \/ /\ peer[c] = "closed"
          /\ sess' = [sess EXCEPT ![c] = "cleanup"]
          /\ UNCHANGED peer
       \/ /\ peer[c] = "idle"
          /\ rcvtimeo_inherited
          /\ sess' = [sess EXCEPT ![c] = "cleanup"]
          /\ UNCHANGED peer
    /\ UNCHANGED sessionVars
    /\ UNCHANGED <<running, max_threads, num_active_clients, client_id, main_pc,
                   new_socket, server_fd_open, rcvtimeo_inherited, sock>>

\* send of the response, lines 88-98; it can fail (EPIPE, ECONNRESET) once
\* the peer has closed
handle_client_send(c) ==
    /\ sess[c] = "send"
    /\ \E ok \in BOOLEAN :
          /\ ~ok => peer[c] = "closed"
          /\ sess' = [sess EXCEPT ![c] = IF ok THEN "top" ELSE "cleanup"]
    /\ UNCHANGED sessionVars
    /\ UNCHANGED <<running, max_threads, num_active_clients, client_id, main_pc,
                   new_socket, server_fd_open, rcvtimeo_inherited, sock, peer>>

\* a cleanup that leaves the connection socket open
handle_client_cleanup_NoClose(c) ==
    /\ sess[c] = "cleanup"
    /\ num_active_clients' = num_active_clients - 1
    /\ sess' = [sess EXCEPT ![c] = "done"]
    /\ UNCHANGED sessionVars
    /\ UNCHANGED <<running, max_threads, client_id, main_pc, new_socket,
                   server_fd_open, rcvtimeo_inherited, sock, peer>>

\* cleanup, lines 105-121: the buffers are freed, the socket closed, the
\* context freed and the slot given back under clients_mutex
handle_client_cleanup(c) ==
    /\ sess[c] = "cleanup"
    /\ sock' = [sock EXCEPT ![c] = "closed"]
    /\ num_active_clients' = num_active_clients - 1
    /\ sess' = [sess EXCEPT ![c] = "done"]
    /\ UNCHANGED sessionVars
    /\ UNCHANGED <<running, max_threads, client_id, main_pc, new_socket,
                   server_fd_open, rcvtimeo_inherited, peer>>

(***************************************************************************)
(* The server specification.                                               *)
(***************************************************************************)
MainStep ==
    \/ main_create_tcp_socket \/ main_bind \/ main_listen \/ HANDLE_ERROR
    \/ main_loop_test \/ main_accept \/ main_accept_fail \/ main_admit
    \/ main_alloc_ctx \/ main_create \/ main_detach \/ main_shutdown \/ main_wait

SessionStep(c) ==
    \/ handle_client_start(c) \/ handle_client_loop_test(c) \/ handle_client_recv(c)
    \/ handle_client_send(c) \/ handle_client_cleanup(c)

\* the session variables while only the server process is modelled
ZcIdle ==
    /\ zc_pc = "done"
    /\ zc_enabled = FALSE
    /\ zc_msg = "none"
    /\ pending_completions = 0
    /\ zc_ctx = [bytes_sent |-> 0, bytes_received |-> 0,
                 messages_sent |-> 0, messages_received |-> 0]
    /\ kern_inflight = 0
    /\ errq = 0

\* the statistics of a ClientContext after memset, main line 217
ZeroStats == [bytes_sent |-> 0, bytes_received |-> 0,
              messages_sent |-> 0, messages_received |-> 0]

\* the client-server pair while it is not modelled
EchoIdle ==
    /\ msg_size = 0
    /\ cl_running = 1
    /\ cl_pc = "done"
    /\ cl_ctx = ZeroStats
    /\ total_recv = 0
    /\ cl_open = FALSE
    /\ sv_pc = "done"
    /\ sv_ctx = ZeroStats
    /\ sv_open = FALSE
    /\ c2s = 0
    /\ s2c = 0

\* no allocate_message run is modelled
MsgIdle ==
    /\ am_pc = "idle"
    /\ am_header = FALSE
    /\ am_fields = 0
    /\ am_i = 0
    /\ wire = <<>>
    /\ per_field_size = 0
    /\ total_size = 0

\* the statistics of a client's ClientContext after memset, main line 188
ZeroClientStats == [bytes_sent |-> 0, bytes_received |-> 0, messages_sent |-> 0,
                    messages_received |-> 0, total_latency_us |-> 0]

\* the accumulators of main, lines 206-210
ZeroTotals == [total_bytes_sent |-> 0, total_bytes_recv |-> 0, total_messages |-> 0,
               total_latency |-> 0, active_threads |-> 0]

\* the load generator process while it is not modelled
ClientIdle ==
    /\ threads = 0
    /\ duration = 1
    /\ cm_pc = "done"
    /\ cm_i = 0
    /\ contexts = [i \in Slots |-> "null"]
    /\ ct_pc = [i \in Slots |-> "none"]
    /\ ct_ctx = [i \in Slots |-> ZeroClientStats]
    /\ totals = ZeroTotals
    /\ summary = [printed |-> "nothing"]

\* the server threads, one for main and one per connection
MainThread == 0
Threads == {MainThread} \cup Conns

\* clients_mutex held by no thread (PTHREAD_MUTEX_INITIALIZER, line 24)
Unlocked == -1

\* Program A while it is not run
ForkIdle ==
    /\ num_processes = 0
    /\ pa_pc = "none"
    /\ pa_i = 0
    /\ child = [k \in Children |-> "none"]

\* the mutex while its statements are not followed one by one
LockIdle ==
    /\ clients_mutex = Unlocked
    /\ lk_pc = [t \in Threads |-> "none"]

Init ==
    /\ ServerInit /\ ZcIdle /\ EchoIdle /\ MsgIdle /\ ClientIdle /\ LockIdle
    /\ ForkIdle

Next ==
    \/ signal_handler
    \/ PeerConnect
    \/ \E c \in Conns : PeerSend(c)
    \/ \E c \in Conns : PeerClose(c)
    \/ main_create_tcp_socket
    \/ main_bind
    \/ main_listen
    \/ HANDLE_ERROR
    \/ main_loop_test
    \/ main_accept
    \/ main_accept_fail
    \/ main_admit
    \/ main_alloc_ctx
    \/ main_create
    \/ main_detach
    \/ main_shutdown
    \/ main_wait
    \/ \E c \in Conns : handle_client_start(c)
    \/ \E c \in Conns : handle_client_loop_test(c)
    \/ \E c \in Conns : handle_client_recv(c)
    \/ \E c \in Conns : handle_client_send(c)
    \/ \E c \in Conns : handle_client_cleanup(c)

Spec == Init /\ [][Next]_vars

\* main and every session thread are scheduled fairly; the signal and the
\* remote ends are under no obligation
FairSpec ==
    /\ Init
    /\ [][Next]_vars
    /\ WF_vars(MainStep)
    /\ \A c \in Conns : WF_vars(SessionStep(c))

TypeOK ==
    /\ running \in {0, 1}
    /\ max_threads \in 1..MaxThreadsOpt
    /\ num_active_clients \in Int
    /\ client_id \in 0..MaxConn
    /\ main_pc \in MainStates
    /\ new_socket \in 0..MaxConn
    /\ sock \in [Conns -> SockStates]
    /\ peer \in [Conns -> PeerStates]
    /\ sess \in [Conns -> SessStates]

(***************************************************************************)
(* One zero-copy session: handle_client of MT25091_Part_A3_Server.c        *)
(* (lines 102-237) with the kernel side of MSG_ZEROCOPY.                   *)
(***************************************************************************)
\* const int max_pending = 8, line 150
max_pending == 8

\* the server variables a session only reads or never touches
serverRest == <<max_threads, client_id, main_pc, new_socket, server_fd_open,
                rcvtimeo_inherited, sock, peer, sess>>

\* size_t total_size = per_field_size * NUM_STRING_FIELDS, lines 106-109
zc_total_size == TotalSize(ZcMsgSize)

\* the session has been admitted by main and its thread created
ZcInit ==
    /\ running = 1
    /\ max_threads = 1
    /\ num_active_clients = 1
    /\ client_id = 1
    /\ main_pc = "loop"
    /\ new_socket = 0
    /\ server_fd_open = TRUE
    /\ rcvtimeo_inherited = FALSE
    /\ sock = [c \in Conns |-> "none"]
    /\ peer = [c \in Conns |-> "idle"]
    /\ sess = [c \in Conns |-> "none"]
    /\ zc_pc = "start"
    /\ zc_enabled = FALSE
    /\ zc_msg = "none"
    /\ pending_completions = 0
    /\ zc_ctx = [bytes_sent |-> 0, bytes_received |-> 0,
                 messages_sent |-> 0, messages_received |-> 0]
    /\ kern_inflight = 0
    /\ errq = 0
    /\ EchoIdle
    /\ MsgIdle
    /\ ClientIdle
    /\ LockIdle
    /\ ForkIdle

\* the kernel finishes with the pages of one zero-copy send and reports it
\* on the error queue, as a new notification or merged into the range of
\* the notification queued last
kernel_complete ==
    /\ kern_inflight > 0
    /\ kern_inflight' = kern_inflight - 1
    /\ \E merged \in BOOLEAN :
          /\ merged => errq > 0
          /\ errq' = IF merged THEN errq ELSE errq + 1
    /\ UNCHANGED <<zc_pc, zc_enabled, zc_msg, pending_completions, zc_ctx>>
    /\ UNCHANGED <<running, num_active_clients, serverRest, echoVars, msgVars, clientVars, lockVars, forkVars>>

\* handle_zerocopy_completion, lines 77-99: what one call can return.
\* recvmsg(MSG_ERRQUEUE) never blocks: 1 when a notification is queued,
\* 0 when none is (EAGAIN), -1 when recvmsg fails otherwise
handle_zerocopy_completion_returns == (IF errq > 0 THEN {1} ELSE {0}) \cup {-1}

\* the error queue after a call that returned ret
errq_after(ret) == IF ret > 0 THEN errq - 1 ELSE errq

\* lines 115-135: SO_ZEROCOPY (a failure is only warned about),
\* allocate_message and the receive buffer (a failure jumps to cleanup)
zc_start ==
    /\ zc_pc = "start"
    /\ \E zc_ok \in BOOLEAN, msg_ok \in BOOLEAN, buf_ok \in BOOLEAN :
          /\ zc_enabled' = zc_ok
          /\ zc_msg' = IF msg_ok THEN "allocated" ELSE "none"
          /\ zc_pc' = IF msg_ok /\ buf_ok THEN "top" ELSE "cleanup"
    /\ UNCHANGED <<pending_completions, zc_ctx, kern_inflight, errq>>
    /\ UNCHANGED <<running, num_active_clients, serverRest, echoVars, msgVars, clientVars, lockVars, forkVars>>

\* while (*(ctx->running)), line 153
zc_loop_test ==
    /\ zc_pc = "top"
    /\ zc_pc' = IF running # 0 THEN "poll" ELSE "drain"
    /\ UNCHANGED <<zc_enabled, zc_msg, pending_completions, zc_ctx, kern_inflight, errq>>
    /\ UNCHANGED <<running, num_active_clients, serverRest, echoVars, msgVars, clientVars, lockVars, forkVars>>

\* one turn of the completion check, lines 155-162
zc_poll ==
    /\ zc_pc = "poll"
    /\ IF pending_completions > 0
          THEN \E ret \in handle_zerocopy_completion_returns :
                  /\ errq' = errq_after(ret)
                  /\ IF ret > 0
                        THEN /\ pending_completions' = pending_completions - 1
                             /\ zc_pc' = "poll"
                        ELSE /\ zc_pc' = "recv"
                             /\ UNCHANGED pending_completions
          ELSE /\ zc_pc' = "recv"
               /\ UNCHANGED <<pending_completions, errq>>
    /\ UNCHANGED <<zc_enabled, zc_msg, zc_ctx, kern_inflight>>
    /\ UNCHANGED <<running, num_active_clients, serverRest, echoVars, msgVars, clientVars, lockVars, forkVars>>

\* what one recv of at most total bytes hands over
RecvSizes(total) == {total \div 2, total}

\* recv, lines 165-175: n > 0 bytes, or 0 (peer closed) or -1 (error)
zc_recv ==
    /\ zc_pc = "recv"
    /\ \/ /\ zc_ctx.messages_received < MaxZcRequests
          /\ \E n \in RecvSizes(zc_total_size) :
                zc_ctx' = [zc_ctx EXCEPT !.bytes_received = @ + n,
                                         !.messages_received = @ + 1]
          /\ zc_pc' = "wait"
       \/ /\ zc_pc' = "drain"
          /\ UNCHANGED zc_ctx
    /\ UNCHANGED <<zc_enabled, zc_msg, pending_completions, kern_inflight, errq>>
    /\ UNCHANGED <<running, num_active_clients, serverRest, echoVars, msgVars, clientVars, lockVars, forkVars>>

\* one turn of the watermark wait, lines 178-185: the loop goes on while
\* the call returns 0 and is left by break when it returns -1
zc_wait ==
    /\ zc_pc = "wait"
    /\ IF pending_completions >= max_pending
          THEN \E ret \in handle_zerocopy_completion_returns :
                  /\ errq' = errq_after(ret)
                  /\ pending_completions' =
                        IF ret > 0 THEN pending_completions - 1 ELSE pending_completions
                  /\ zc_pc' = IF ret < 0 THEN "send" ELSE "wait"
          ELSE /\ zc_pc' = "send"
               /\ UNCHANGED <<pending_completions, errq>>
    /\ UNCHANGED <<zc_enabled, zc_msg, zc_ctx, kern_inflight>>
    /\ UNCHANGED <<running, num_active_clients, serverRest, echoVars, msgVars, clientVars, lockVars, forkVars>>

\* sendmsg(MSG_ZEROCOPY), lines 189-207: the response is accepted, or
\* rejected with ENOBUFS while earlier sends hold the socket's pinned-memory
\* budget, or fails otherwise. Without SO_ZEROCOPY the kernel copies the
\* data and never queues a notification.
zc_send ==
    /\ zc_pc = "send"
    /\ \/ /\ pending_completions' = pending_completions + 1
          /\ zc_ctx' = [zc_ctx EXCEPT !.bytes_sent = @ + zc_total_size,
                                      !.messages_sent = @ + 1]
          /\ kern_inflight' = IF zc_enabled THEN kern_inflight + 1 ELSE kern_inflight
          /\ zc_pc' = "top"
       \/ /\ zc_enabled
          /\ kern_inflight + errq > 0
          /\ zc_pc' = "enobufs"
          /\ UNCHANGED <<pending_completions, zc_ctx, kern_inflight>>
       \/ /\ zc_pc' = "drain"
          /\ UNCHANGED <<pending_completions, zc_ctx, kern_inflight>>
    /\ UNCHANGED <<zc_enabled, zc_msg, errq>>
    /\ UNCHANGED <<running, num_active_clients, serverRest, echoVars, msgVars, clientVars, lockVars, forkVars>>

\* an ENOBUFS branch that gives the session up
zc_enobufs_Breaks ==
    /\ zc_pc = "enobufs"
    /\ \E ret \in handle_zerocopy_completion_returns : errq' = errq_after(ret)
    /\ zc_pc' = "drain"
    /\ UNCHANGED <<zc_enabled, zc_msg, pending_completions, zc_ctx, kern_inflight>>
    /\ UNCHANGED <<running, num_active_clients, serverRest, echoVars, msgVars, clientVars, lockVars, forkVars>>

\* the ENOBUFS branch, lines 193-197: one call whose result is dropped,
\* then continue
zc_enobufs ==
    /\ zc_pc = "enobufs"
    /\ \E ret \in handle_zerocopy_completion_returns : errq' = errq_after(ret)
    /\ zc_pc' = "top"
    /\ UNCHANGED <<zc_enabled, zc_msg, pending_completions, zc_ctx, kern_inflight>>
    /\ UNCHANGED <<running, num_active_clients, serverRest, echoVars, msgVars, clientVars, lockVars, forkVars>>

\* the else branch of the drain loop, lines 215-217: break unless ret > 0
DrainStops(ret) == ~ (ret > 0)

\* a drain that counts a completion for every call, whatever it returned
zc_drain_CountsEveryPoll ==
    /\ zc_pc = "drain"
    /\ IF pending_completions > 0
          THEN \E ret \in handle_zerocopy_completion_returns :
                  /\ errq' = errq_after(ret)
                  /\ pending_completions' = pending_completions - 1
                  /\ zc_pc' = IF DrainStops(ret) THEN "cleanup" ELSE "drain"
          ELSE /\ zc_pc' = "cleanup"
               /\ UNCHANGED <<pending_completions, errq>>
    /\ UNCHANGED <<zc_enabled, zc_msg, zc_ctx, kern_inflight>>
    /\ UNCHANGED <<running, num_active_clients, serverRest, echoVars, msgVars, clientVars, lockVars, forkVars>>

\* one turn of the drain after the loop, lines 211-218
zc_drain ==
    /\ zc_pc = "drain"
    /\ IF pending_completions > 0
          THEN \E ret \in handle_zerocopy_completion_returns :
                  /\ errq' = errq_after(ret)
                  /\ pending_completions' =
                        IF ret > 0 THEN pending_completions - 1 ELSE pending_completions
                  /\ zc_pc' = IF DrainStops(ret) THEN "cleanup" ELSE "drain"
          ELSE /\ zc_pc' = "cleanup"
               /\ UNCHANGED <<pending_completions, errq>>
    /\ UNCHANGED <<zc_enabled, zc_msg, zc_ctx, kern_inflight>>
    /\ UNCHANGED <<running, num_active_clients, serverRest, echoVars, msgVars, clientVars, lockVars, forkVars>>

\* cleanup, lines 224-236: free_message, free of the receive buffer, close,
\* free of the context and the slot given back under clients_mutex
zc_cleanup ==
    /\ zc_pc = "cleanup"
    /\ zc_msg' = IF zc_msg = "allocated" THEN "freed" ELSE zc_msg
    /\ num_active_clients' = num_active_clients - 1
    /\ zc_pc' = "done"
    /\ UNCHANGED <<zc_enabled, pending_completions, zc_ctx, kern_inflight, errq>>
    /\ UNCHANGED <<running, serverRest, echoVars, msgVars, clientVars, lockVars, forkVars>>

ZcNext ==
    \/ signal_handler
    \/ kernel_complete
    \/ zc_start
    \/ zc_loop_test
    \/ zc_poll
    \/ zc_recv
    \/ zc_wait
    \/ zc_send
    \/ zc_enobufs
    \/ zc_drain
    \/ zc_cleanup

ZcSpec == ZcInit /\ [][ZcNext]_vars

\* a turn of the watermark wait that does not rest on recvmsg failing: a
\* queued notification is read, or the count is below the watermark
zc_wait_turn ==
    /\ zc_wait
    /\ (errq' < errq \/ pending_completions < max_pending)

\* the steps the session thread takes when it is given the processor,
\* whatever the peer and the kernel do: every statement but the blocking
\* recv, which returns only when the peer sends or closes
ZcSessionStep ==
    \/ zc_start \/ zc_loop_test \/ zc_poll \/ zc_wait_turn \/ zc_send
    \/ zc_enobufs \/ zc_drain \/ zc_cleanup

\* the session thread is scheduled fairly; the signal, the peer and the
\* kernel's completions are under no obligation
ZcFairSpec == ZcInit /\ [][ZcNext]_vars /\ WF_vars(ZcSessionStep)

(***************************************************************************)
(* One client session and the server session that serves it, two-copy      *)
(* (A1: send of the serialized buffer) or one-copy (A2: sendmsg of the 8   *)
(* iovec entries); the two strategies run the same loops and put the same  *)
(* number of bytes on the stream.                                          *)
(***************************************************************************)
\* buffer_size as set by serialize_message (A1) or total_size (A2)
buffer_size == TotalSize(msg_size)

Min(a, b) == IF a < b THEN a ELSE b

clVars == <<cl_running, cl_pc, cl_ctx, total_recv, cl_open>>
svVars == <<sv_pc, sv_ctx, sv_open>>

\* the client has connected, main of the server has admitted the connection
\* and both threads have been created
EchoInit ==
    /\ running = 1
    /\ max_threads = 1
    /\ num_active_clients = 1
    /\ client_id = 1
    /\ main_pc = "loop"
    /\ new_socket = 0
    /\ server_fd_open = TRUE
    /\ rcvtimeo_inherited \in BOOLEAN
    /\ sock = [c \in Conns |-> "none"]
    /\ peer = [c \in Conns |-> "idle"]
    /\ sess = [c \in Conns |-> "none"]
    /\ ZcIdle
    /\ MsgIdle
    /\ ClientIdle
    /\ LockIdle
    /\ ForkIdle
    /\ msg_size = EchoMsgSize
    /\ cl_running = 1
    /\ cl_pc = "start"
    /\ cl_ctx = ZeroStats
    /\ total_recv = 0
    /\ cl_open = TRUE
    /\ sv_pc = "start"
    /\ sv_ctx = ZeroStats
    /\ sv_open = TRUE
    /\ c2s = 0
    /\ s2c = 0

\* the client's signal_handler: SIGINT / SIGTERM clears its running flag
client_signal_handler ==
    /\ cl_running = 1
    /\ cl_running' = 0
    /\ UNCHANGED <<msg_size, cl_pc, cl_ctx, total_recv, cl_open, svVars, c2s, s2c>>
    /\ UNCHANGED <<serverVars, zcVars, msgVars, clientVars, lockVars, forkVars>>

\* the server's signal_handler, seen from the pair
server_signal_handler ==
    /\ running = 1
    /\ running' = 0
    /\ UNCHANGED <<num_active_clients, serverRest, zcVars, echoVars, msgVars, clientVars, lockVars, forkVars>>

\* client_thread lines 39-62: message, send buffer and receive buffer
client_start ==
    /\ cl_pc = "start"
    /\ \E ok \in BOOLEAN : cl_pc' = IF ok THEN "top" ELSE "cleanup"
    /\ UNCHANGED <<msg_size, cl_running, cl_ctx, total_recv, cl_open, svVars, c2s, s2c>>
    /\ UNCHANGED <<serverVars, zcVars, msgVars, clientVars, lockVars, forkVars>>

\* while (*(ctx->running) && get_time_sec() < end_time), line 65; the
\* duration is over at the latest after MaxExchanges requests
client_loop_test ==
    /\ cl_pc = "top"
    /\ \E in_time \in BOOLEAN :
          /\ in_time => cl_ctx.messages_sent < MaxExchanges
          /\ cl_pc' = IF cl_running # 0 /\ in_time THEN "send" ELSE "cleanup"
    /\ UNCHANGED <<msg_size, cl_running, cl_ctx, total_recv, cl_open, svVars, c2s, s2c>>
    /\ UNCHANGED <<serverVars, zcVars, msgVars, clientVars, lockVars, forkVars>>

\* the stream is cut at half-message boundaries: the byte counts one send
\* or recv of at most len bytes can return when avail bytes can move, all
\* of them or only part (a short write, a segment that has not arrived yet)
Chunk == buffer_size \div 2
TransferSizes(len, avail) == {n \in 1..Min(len, avail) : n % Chunk = 0}

\* what one send of len bytes can return when it succeeds
SendSizes(len) == TransferSizes(len, len)

\* send (A1 line 71) or sendmsg (A2 line 71) and lines 73-81
client_send ==
    /\ cl_pc = "send"
    /\ \/ \E bytes_sent \in SendSizes(buffer_size) :
             /\ cl_ctx' = [cl_ctx EXCEPT !.bytes_sent = @ + bytes_sent,
                                         !.messages_sent = @ + 1]
             /\ c2s' = IF sv_open THEN c2s + bytes_sent ELSE c2s
             /\ total_recv' = 0
             /\ cl_pc' = "recv"
       \/ /\ ~sv_open
          /\ cl_pc' = "cleanup"
          /\ UNCHANGED <<cl_ctx, c2s, total_recv>>
    /\ UNCHANGED <<msg_size, cl_running, cl_open, svVars, s2c>>
    /\ UNCHANGED <<serverVars, zcVars, msgVars, clientVars, lockVars, forkVars>>

\* a receive loop that counts a message for every recv that returns bytes
client_recv_CountsEveryChunk ==
    /\ cl_pc = "recv"
    /\ IF total_recv < buffer_size /\ cl_running # 0
          THEN \/ /\ s2c > 0
                  /\ \E bytes_recv \in TransferSizes(buffer_size - total_recv, s2c) :
                        /\ total_recv' = total_recv + bytes_recv
                        /\ s2c' = s2c - bytes_recv
                        /\ cl_ctx' = [cl_ctx EXCEPT !.bytes_received = @ + bytes_recv,
                                                    !.messages_received = @ + 1]
                  /\ UNCHANGED cl_pc
               \/ /\ s2c = 0
                  /\ ~sv_open
                  /\ cl_pc' = "cleanup"
                  /\ UNCHANGED <<cl_ctx, total_recv, s2c>>
          ELSE /\ cl_pc' = "top"
               /\ UNCHANGED <<cl_ctx, total_recv, s2c>>
    /\ UNCHANGED <<msg_size, cl_running, cl_open, svVars, c2s>>
    /\ UNCHANGED <<serverVars, zcVars, msgVars, clientVars, lockVars, forkVars>>

\* one turn of the receive loop, lines 86-97, and what follows it, lines
\* 99-105, when its condition is false
client_recv ==
    /\ cl_pc = "recv"
    /\ IF total_recv < buffer_size /\ cl_running # 0
          THEN \/ /\ s2c > 0
                  /\ \E bytes_recv \in TransferSizes(buffer_size - total_recv, s2c) :
                        /\ total_recv' = total_recv + bytes_recv
                        /\ s2c' = s2c - bytes_recv
                  /\ UNCHANGED <<cl_pc, cl_ctx>>
               \/ /\ s2c = 0
                  /\ ~sv_open
                  /\ cl_pc' = "cleanup"
                  /\ UNCHANGED <<cl_ctx, total_recv, s2c>>
          ELSE /\ cl_ctx' = [cl_ctx EXCEPT !.bytes_received = @ + total_recv,
                                           !.messages_received = @ + 1]
               /\ cl_pc' = "top"
               /\ UNCHANGED <<total_recv, s2c>>
    /\ UNCHANGED <<msg_size, cl_running, cl_open, svVars, c2s>>
    /\ UNCHANGED <<serverVars, zcVars, msgVars, clientVars, lockVars, forkVars>>

\* cleanup, lines 115-124: the buffers are freed and the socket closed
client_cleanup ==
    /\ cl_pc = "cleanup"
    /\ cl_open' = FALSE
    /\ cl_pc' = "done"
    /\ UNCHANGED <<msg_size, cl_running, cl_ctx, total_recv, svVars, c2s, s2c>>
    /\ UNCHANGED <<serverVars, zcVars, msgVars, clientVars, lockVars, forkVars>>

\* handle_client lines 45-66: message, send buffer and receive buffer
echo_server_start ==
    /\ sv_pc = "start"
    /\ \E ok \in BOOLEAN : sv_pc' = IF ok THEN "top" ELSE "cleanup"
    /\ UNCHANGED <<msg_size, clVars, sv_ctx, sv_open, c2s, s2c>>
    /\ UNCHANGED <<serverVars, zcVars, msgVars, clientVars, lockVars, forkVars>>

\* while (*(ctx->running)), line 69
echo_server_loop_test ==
    /\ sv_pc = "top"
    /\ sv_pc' = IF running # 0 THEN "recv" ELSE "cleanup"
    /\ UNCHANGED <<msg_size, clVars, sv_ctx, sv_open, c2s, s2c>>
    /\ UNCHANGED <<serverVars, zcVars, msgVars, clientVars, lockVars, forkVars>>

\* the single recv of lines 73-83: whatever part of the stream has arrived,
\* up to buffer_size bytes; 0 once the client has closed; EAGAIN when the
\* socket carries a receive timeout and nothing arrives
echo_server_recv ==
    /\ sv_pc = "recv"
    /\ \/ /\ c2s > 0
          /\ \E bytes_recv \in TransferSizes(buffer_size, c2s) :
                /\ sv_ctx' = [sv_ctx EXCEPT !.bytes_received = @ + bytes_recv,
                                            !.messages_received = @ + 1]
                /\ c2s' = c2s - bytes_recv
          /\ sv_pc' = "send"
       \/ /\ c2s = 0
          /\ ~cl_open \/ rcvtimeo_inherited
          /\ sv_pc' = "cleanup"
          /\ UNCHANGED <<sv_ctx, c2s>>
    /\ UNCHANGED <<msg_size, clVars, sv_open, s2c>>
    /\ UNCHANGED <<serverVars, zcVars, msgVars, clientVars, lockVars, forkVars>>

\* send (A1 line 88) or sendmsg (A2 line 95) of the response and lines
\* 90-98
echo_server_send ==
    /\ sv_pc = "send"
    /\ \/ \E bytes_sent \in SendSizes(buffer_size) :
             /\ sv_ctx' = [sv_ctx EXCEPT !.bytes_sent = @ + bytes_sent,
                                         !.messages_sent = @ + 1]
             /\ s2c' = IF cl_open THEN s2c + bytes_sent ELSE s2c
             /\ sv_pc' = "top"
       \/ /\ ~cl_open
          /\ sv_pc' = "cleanup"
          /\ UNCHANGED <<sv_ctx, s2c>>
    /\ UNCHANGED <<msg_size, clVars, sv_open, c2s>>
    /\ UNCHANGED <<serverVars, zcVars, msgVars, clientVars, lockVars, forkVars>>

\* cleanup, lines 105-121
echo_server_cleanup ==
    /\ sv_pc = "cleanup"
    /\ sv_open' = FALSE
    /\ num_active_clients' = num_active_clients - 1
    /\ sv_pc' = "done"
    /\ UNCHANGED <<msg_size, clVars, sv_ctx, c2s, s2c>>
    /\ UNCHANGED <<running, serverRest, zcVars, msgVars, clientVars, lockVars, forkVars>>

EchoNext ==
    \/ client_signal_handler
    \/ server_signal_handler
    \/ client_start
    \/ client_loop_test
    \/ client_send
    \/ client_recv
    \/ client_cleanup
    \/ echo_server_start
    \/ echo_server_loop_test
    \/ echo_server_recv
    \/ echo_server_send
    \/ echo_server_cleanup

EchoSpec == EchoInit /\ [][EchoNext]_vars

(***************************************************************************)
(* The load generator process: main of MT25091_Part_A1_Client.c (lines     *)
(* 127-252, the same code in the A2 client) and the client_thread sessions *)
(* it creates, each seen one request and one echo at a time.               *)
(***************************************************************************)
\* values of the -d option that are explored
Durations == {1, 2}

\* round-trip times (send_end - send_start, in microseconds) one exchange
\* can measure; main only adds them up, so one value is followed
Latencies == {2}

\* the server process is not part of this specification
ClientInit ==
    /\ running = 1
    /\ max_threads = 1
    /\ num_active_clients = 0
    /\ client_id = 0
    /\ main_pc = "loop"
    /\ new_socket = 0
    /\ server_fd_open = TRUE
    /\ rcvtimeo_inherited = FALSE
    /\ sock = [c \in Conns |-> "none"]
    /\ peer = [c \in Conns |-> "idle"]
    /\ sess = [c \in Conns |-> "none"]
    /\ ZcIdle
    /\ MsgIdle
    /\ LockIdle
    /\ ForkIdle
    /\ msg_size = EchoMsgSize
    /\ cl_running = 1
    /\ cl_pc = "done"
    /\ cl_ctx = ZeroStats
    /\ total_recv = 0
    /\ cl_open = FALSE
    /\ sv_pc = "done"
    /\ sv_ctx = ZeroStats
    /\ sv_open = FALSE
    /\ c2s = 0
    /\ s2c = 0
    /\ threads \in 1..MaxClientThreads
    /\ duration \in Durations
    /\ cm_pc = "create"
    /\ cm_i = 1
    \* malloc(threads * sizeof(ClientContext *)), lines 151-152: the slots
    \* are not initialised
    /\ contexts = [i \in Slots |-> "uninit"]
    /\ ct_pc = [i \in Slots |-> "none"]
    /\ ct_ctx = [i \in Slots |-> ZeroClientStats]
    /\ totals = ZeroTotals
    /\ summary = [printed |-> "nothing", throughput_gbps |-> <<0, 1>>,
                  avg_latency_us |-> <<0, 1>>]

\* the echo variables the load generator does not use
echoRest == <<msg_size, cl_pc, cl_ctx, total_recv, cl_open, sv_pc, sv_ctx, sv_open, c2s, s2c>>

\* one turn of the creation loop, lines 159-203, or its end. inet_pton or
\* connect fails: continue, contexts[i] is not assigned; malloc of the
\* context fails: contexts[i] holds the NULL malloc returned; pthread_create
\* fails: contexts[i] is freed and set to NULL; otherwise the thread runs
client_main_create ==
    /\ cm_pc = "create"
    /\ IF cm_i <= threads
          THEN /\ \E outcome \in {"connect_failed", "ctx_null", "create_failed", "created"} :
                     /\ contexts' = [contexts EXCEPT ![cm_i] =
                                        CASE outcome = "connect_failed" -> @
                                          [] outcome = "created" -> "ctx"
                                          [] OTHER -> "null"]
                     /\ ct_pc' = [ct_pc EXCEPT ![cm_i] =
                                     IF outcome = "created" THEN "start" ELSE @]
               /\ cm_i' = cm_i + 1
               /\ UNCHANGED cm_pc
          ELSE /\ cm_pc' = "join"
               /\ cm_i' = 1
               /\ UNCHANGED <<contexts, ct_pc>>
    /\ UNCHANGED <<threads, duration, ct_ctx, totals, summary>>
    /\ UNCHANGED <<serverVars, zcVars, msgVars, cl_running, echoRest, lockVars, forkVars>>

\* the additions of lines 216-220 for the context ctx
Accumulate(t, ctx) ==
    [total_bytes_sent |-> t.total_bytes_sent + ctx.bytes_sent,
     total_bytes_recv |-> t.total_bytes_recv + ctx.bytes_received,
     total_messages   |-> t.total_messages + ctx.messages_sent,
     total_latency    |-> t.total_latency + ctx.total_latency_us,
     active_threads   |-> t.active_threads + 1]

\* a join loop that adds the counters up without waiting for the thread
client_main_join_NoJoin ==
    /\ cm_pc = "join"
    /\ IF cm_i <= threads
          THEN \/ /\ contexts[cm_i] = "ctx"
                  /\ totals' = Accumulate(totals, ct_ctx[cm_i])
                  /\ contexts' = [contexts EXCEPT ![cm_i] = "freed"]
                  /\ cm_i' = cm_i + 1
                  /\ UNCHANGED cm_pc
               \/ /\ contexts[cm_i] \in {"null", "uninit"}
                  /\ cm_i' = cm_i + 1
                  /\ UNCHANGED <<cm_pc, contexts, totals>>
               \/ /\ contexts[cm_i] = "uninit"
                  /\ cm_pc' = "crashed"
                  /\ UNCHANGED <<cm_i, contexts, totals>>
          ELSE /\ cm_pc' = "summary"
               /\ UNCHANGED <<cm_i, contexts, totals>>
    /\ UNCHANGED <<threads, duration, ct_pc, ct_ctx, summary>>
    /\ UNCHANGED <<serverVars, zcVars, msgVars, cl_running, echoRest, lockVars, forkVars>>

\* one turn of the join loop, lines 212-224, or its end. pthread_join
\* returns once the thread has terminated. A slot the creation loop never
\* assigned holds an indeterminate value: read as NULL it is skipped; read
\* as anything else, pthread_join is given the equally unassigned
\* thread_ids[i] and free a pointer malloc never returned, which ends the
\* process
client_main_join ==
    /\ cm_pc = "join"
    /\ IF cm_i <= threads
          THEN \/ /\ contexts[cm_i] = "ctx"
                  /\ ct_pc[cm_i] = "done"
                  /\ totals' = Accumulate(totals, ct_ctx[cm_i])
                  /\ contexts' = [contexts EXCEPT ![cm_i] = "freed"]
                  /\ cm_i' = cm_i + 1
                  /\ UNCHANGED cm_pc
               \/ /\ contexts[cm_i] \in {"null", "uninit"}
                  /\ cm_i' = cm_i + 1
                  /\ UNCHANGED <<cm_pc, contexts, totals>>
               \/ /\ contexts[cm_i] = "uninit"
                  /\ cm_pc' = "crashed"
                  /\ UNCHANGED <<cm_i, contexts, totals>>
          ELSE /\ cm_pc' = "summary"
               /\ UNCHANGED <<cm_i, contexts, totals>>
    /\ UNCHANGED <<threads, duration, ct_pc, ct_ctx, summary>>
    /\ UNCHANGED <<serverVars, zcVars, msgVars, cl_running, echoRest, lockVars, forkVars>>

\* throughput in bits where the code has bytes
ThroughputBits_Bytes(sent, recv) == sent + recv

\* (double)(total_bytes_sent + total_bytes_recv) * 8.0, line 232
ThroughputBits(sent, recv) == (sent + recv) * 8

\* duration * 1000000000.0, line 233
ThroughputDivisor(d) == d * 1000000000

\* the SUMMARY block, lines 226-246. The two quotients are kept as pairs
\* <<dividend, divisor>>, the values the double division is applied to
client_main_summary ==
    /\ cm_pc = "summary"
    /\ summary' =
          IF totals.active_threads > 0 /\ totals.total_messages > 0
             THEN [printed |-> "statistics",
                   throughput_gbps |->
                       <<ThroughputBits(totals.total_bytes_sent, totals.total_bytes_recv),
                         ThroughputDivisor(duration)>>,
                   avg_latency_us |-> <<totals.total_latency, totals.total_messages>>]
             ELSE [summary EXCEPT !.printed = "No successful connections."]
    /\ cm_pc' = "done"
    /\ UNCHANGED <<threads, duration, cm_i, contexts, ct_pc, ct_ctx, totals>>
    /\ UNCHANGED <<serverVars, zcVars, msgVars, cl_running, echoRest, lockVars, forkVars>>

\* client_thread lines 39-62: message, send buffer and receive buffer; a
\* failure jumps to cleanup
client_thread_setup(i) ==
    /\ ct_pc[i] = "start"
    /\ \E ok \in BOOLEAN : ct_pc' = [ct_pc EXCEPT ![i] = IF ok THEN "top" ELSE "done"]
    /\ UNCHANGED <<threads, duration, cm_pc, cm_i, contexts, ct_ctx, totals, summary>>
    /\ UNCHANGED <<serverVars, zcVars, msgVars, cl_running, echoRest, lockVars, forkVars>>

\* the loop test of line 65 and the send of lines 71-81: the loop is left
\* when the flag is cleared or the duration is over (at the latest after
\* MaxRoundTrips requests) and when send fails; otherwise the bytes the
\* send returned and the request are counted
client_thread_send(i) ==
    /\ ct_pc[i] = "top"
    /\ \E in_time \in BOOLEAN :
          /\ in_time => ct_ctx[i].messages_sent < MaxRoundTrips
          /\ IF cl_running # 0 /\ in_time
                THEN \/ \E bytes_sent \in SendSizes(buffer_size) :
                           /\ ct_ctx' = [ct_ctx EXCEPT ![i].bytes_sent = @ + bytes_sent,
                                                       ![i].messages_sent = @ + 1]
                           /\ ct_pc' = [ct_pc EXCEPT ![i] = "recv"]
                     \/ /\ ct_pc' = [ct_pc EXCEPT ![i] = "done"]
                        /\ UNCHANGED ct_ctx
                ELSE /\ ct_pc' = [ct_pc EXCEPT ![i] = "done"]
                     /\ UNCHANGED ct_ctx
    /\ UNCHANGED <<threads, duration, cm_pc, cm_i, contexts, totals, summary>>
    /\ UNCHANGED <<serverVars, zcVars, msgVars, cl_running, echoRest, lockVars, forkVars>>

\* the receive loop of lines 86-97 and the counting of lines 99-105: the
\* whole echo arrives; or the flag is cleared while part of it (none or
\* half) has arrived, which ends the loop and is counted the same way; or
\* recv returns 0 or fails, which jumps to cleanup
client_thread_recv(i) ==
    /\ ct_pc[i] = "recv"
    /\ \/ \E total \in {buffer_size} \cup (IF cl_running = 0 THEN {0, Chunk} ELSE {}),
             latency \in Latencies :
             /\ ct_ctx' = [ct_ctx EXCEPT ![i].bytes_received = @ + total,
                                         ![i].messages_received = @ + 1,
                                         ![i].total_latency_us = @ + latency]
             /\ ct_pc' = [ct_pc EXCEPT ![i] = "top"]
       \/ /\ ct_pc' = [ct_pc EXCEPT ![i] = "done"]
          /\ UNCHANGED ct_ctx
    /\ UNCHANGED <<threads, duration, cm_pc, cm_i, contexts, totals, summary>>
    /\ UNCHANGED <<serverVars, zcVars, msgVars, cl_running, echoRest, lockVars, forkVars>>

ClientNext ==
    \/ client_signal_handler
    \/ client_main_create
    \/ client_main_join
    \/ client_main_summary
    \/ \E i \in Slots : client_thread_setup(i)
    \/ \E i \in Slots : client_thread_send(i)
    \/ \E i \in Slots : client_thread_recv(i)

ClientSpec == ClientInit /\ [][ClientNext]_vars

(***************************************************************************)
(* allocate_message followed by serialize_message (MT25091_Common.h lines  *)
(* 83-132), for one requested size.                                        *)
(***************************************************************************)
LargeSizes == {1023, 1024, 1000000}

MsgSizes == (0..MaxSmallSize) \cup LargeSizes

MsgInit ==
    /\ running = 1
    /\ max_threads = 1
    /\ num_active_clients = 0
    /\ client_id = 0
    /\ main_pc = "loop"
    /\ new_socket = 0
    /\ server_fd_open = TRUE
    /\ rcvtimeo_inherited = FALSE
    /\ sock = [c \in Conns |-> "none"]
    /\ peer = [c \in Conns |-> "idle"]
    /\ sess = [c \in Conns |-> "none"]
    /\ ZcIdle
    /\ ClientIdle
    /\ LockIdle
    /\ ForkIdle
    /\ msg_size \in MsgSizes
    /\ cl_running = 1
    /\ cl_pc = "done"
    /\ cl_ctx = ZeroStats
    /\ total_recv = 0
    /\ cl_open = FALSE
    /\ sv_pc = "done"
    /\ sv_ctx = ZeroStats
    /\ sv_open = FALSE
    /\ c2s = 0
    /\ s2c = 0
    /\ am_pc = "entry"
    /\ am_header = FALSE
    /\ am_fields = 0
    /\ am_i = 0
    /\ wire = <<>>
    /\ per_field_size = 0
    /\ total_size = 0

\* allocate_message lines 84-88: malloc of the Message, per_field_size
allocate_message_entry ==
    /\ am_pc = "entry"
    /\ \E ok \in BOOLEAN :
          IF ok
             THEN /\ am_header' = TRUE
                  /\ per_field_size' = PerFieldSize(msg_size)
                  /\ am_pc' = "fields"
             ELSE /\ am_pc' = "null"
                  /\ UNCHANGED <<am_header, per_field_size>>
    /\ UNCHANGED <<am_fields, am_i, wire, total_size>>
    /\ UNCHANGED <<serverVars, zcVars, echoVars, clientVars, lockVars, forkVars>>

\* a cleanup loop that stops one field short
CleanupFreed_OneShort(i) == {j \in 0..(NUM_STRING_FIELDS - 1) : j < i - 1}

\* the fields freed by the cleanup loop, lines 94-96: for (j = 0; j < i; j++)
CleanupFreed(i) == {j \in 0..(NUM_STRING_FIELDS - 1) : j < i}

\* one turn of the loop, lines 90-102: malloc of field[i]; on failure the
\* fields allocated so far and the Message are freed and NULL is returned;
\* after the last field the message is returned, line 103
allocate_message_field ==
    /\ am_pc = "fields"
    /\ \E ok \in BOOLEAN :
          IF ok
             THEN /\ am_fields' = am_fields + 1
                  /\ am_i' = am_i + 1
                  /\ am_pc' = IF am_i + 1 = NUM_STRING_FIELDS THEN "allocated" ELSE "fields"
                  /\ UNCHANGED am_header
             ELSE /\ am_fields' = am_fields - Cardinality(CleanupFreed(am_i))
                  /\ am_header' = FALSE
                  /\ am_pc' = "null"
                  /\ UNCHANGED am_i
    /\ UNCHANGED <<wire, per_field_size, total_size>>
    /\ UNCHANGED <<serverVars, zcVars, echoVars, clientVars, lockVars, forkVars>>

\* serialize_message lines 118-132: *total_size is set before the buffer
\* is allocated; NULL is returned when malloc fails
serialize_message ==
    /\ am_pc = "allocated"
    /\ total_size' = TotalSize(msg_size)
    /\ \E ok \in BOOLEAN : am_pc' = IF ok THEN "serialized" ELSE "serialize_null"
    /\ UNCHANGED <<am_header, am_fields, am_i, wire, per_field_size>>
    /\ UNCHANGED <<serverVars, zcVars, echoVars, clientVars, lockVars, forkVars>>

MsgNext ==
    \/ allocate_message_entry
    \/ allocate_message_field
    \/ serialize_message

MsgSpec == MsgInit /\ [][MsgNext]_vars

(***************************************************************************)
(* The bytes of a message on the stream: serialize_message followed by     *)
(* send (two-copy), against sendmsg of the 8 iovec entries (one-copy,      *)
(* MT25091_Part_A2_Client.c lines 28-31, 50-60 and 71).                    *)
(***************************************************************************)
\* the sizes for which the bytes are followed
WireSizes == MsgSizes \ {1000000}

WireInit == MsgInit /\ msg_size \in WireSizes

\* memset(msg->field[i], 'A' + i, per_field_size), allocate_message line
\* 102: the bytes of field[i], 'A' being 65
FieldBytes(i, size) == [k \in 1..size |-> 65 + i]

\* the buffer serialize_message returns, lines 119-131: memcpy puts byte k
\* of field[i] at offset i * per_field_size + k
SerializedBuffer(field_size) ==
    LET size == PerFieldSize(field_size)
    IN  [o \in 1..(size * NUM_STRING_FIELDS) |->
            FieldBytes((o - 1) \div size, size)[((o - 1) % size) + 1]]

\* an iov_len that is not clamped to at least one byte
IovLen_NoClamp(field_size) == field_size \div NUM_STRING_FIELDS

\* iov[i].iov_len = per_field_size, A2 client lines 28-30 and 54
IovLen(field_size) ==
    LET size == field_size \div NUM_STRING_FIELDS
    IN  IF size = 0 THEN 1 ELSE size

\* what the kernel gathers from iov[i..7]: iov_len bytes from each
\* iov_base = msg->field[i], in index order
RECURSIVE Gather(_, _)
Gather(i, field_size) ==
    IF i = NUM_STRING_FIELDS THEN <<>>
    ELSE SubSeq(FieldBytes(i, per_field_size), 1, IovLen(field_size))
             \o Gather(i + 1, field_size)

\* the byte counts sendmsg can return for a submission of total bytes
SubmissionSizes(total) == {n \in {1, total \div 2, total} : n >= 1 /\ n <= total}

\* sendmsg(ctx->socket_fd, &send_hdr, 0), A2 client line 71: the stream
\* takes the whole submission or, on a short write, its first bytes
sendmsg_iov ==
    /\ am_pc = "allocated"
    /\ LET gathered == Gather(0, msg_size)
       IN  \/ /\ wire' = gathered
              /\ am_pc' = "sent_iov"
           \/ \E n \in SubmissionSizes(Len(gathered)) :
                 /\ n < Len(gathered)
                 /\ wire' = SubSeq(gathered, 1, n)
                 /\ am_pc' = "sent_iov_short"
    /\ UNCHANGED <<am_header, am_fields, am_i, per_field_size, total_size>>
    /\ UNCHANGED <<serverVars, zcVars, echoVars, clientVars, lockVars, forkVars>>

WireNext ==
    \/ allocate_message_entry
    \/ allocate_message_field
    \/ serialize_message
    \/ sendmsg_iov

WireSpec == WireInit /\ [][WireNext]_vars

(***************************************************************************)
(* clients_mutex and num_active_clients, statement by statement            *)
(* (MT25091_Part_A1_Server.c): main's admission (lines 196-204), its two   *)
(* failure paths (lines 211-213 and 229-231), the end of handle_client     *)
(* (lines 117-119) and the shutdown wait (line 243).                       *)
(***************************************************************************)
\* the server variables these statements leave alone
lockRest == <<max_threads, client_id, main_pc, server_fd_open, rcvtimeo_inherited,
              sock, peer, sess>>

\* main is at the head of the accept loop, no session exists yet
LockInit ==
    /\ running = 1
    /\ max_threads \in 1..MaxThreadsOpt
    /\ num_active_clients = 0
    /\ client_id = 0
    /\ main_pc = "loop"
    /\ new_socket = 0
    /\ server_fd_open = TRUE
    /\ rcvtimeo_inherited = FALSE
    /\ sock = [c \in Conns |-> "none"]
    /\ peer = [c \in Conns |-> "idle"]
    /\ sess = [c \in Conns |-> "none"]
    /\ clients_mutex = Unlocked
    /\ lk_pc = [t \in Threads |-> IF t = MainThread THEN "loop" ELSE "none"]
    /\ ZcIdle
    /\ EchoIdle
    /\ MsgIdle
    /\ ClientIdle
    /\ ForkIdle

\* the statements at which a thread calls pthread_mutex_lock, and where it
\* is once it has the mutex
AfterLock == [lock_admit |-> "admit_test", lock_giveback |-> "giveback"]

\* the statements at which a thread calls pthread_mutex_unlock, and where
\* it goes from there: main back to the accept loop (after a rejection or a
\* failed spawn) or on to the spawn, a session thread to its return
AfterUnlock(t) ==
    [unlock_reject |-> "loop",
     unlock_admit |-> "spawn",
     unlock_giveback |-> IF t = MainThread THEN "loop" ELSE "done"]

\* while (server_config.running), line 176; when the loop is left main
\* closes the server socket and starts the wait of line 243
lk_loop_test ==
    /\ lk_pc[MainThread] = "loop"
    /\ lk_pc' = [lk_pc EXCEPT ![MainThread] = IF running # 0 THEN "accept" ELSE "wait"]
    /\ UNCHANGED <<running, num_active_clients, new_socket, clients_mutex>>
    /\ UNCHANGED <<lockRest, zcVars, echoVars, msgVars, clientVars, forkVars>>

\* accept, lines 183-193: a connection, or a timeout or error that
\* continues the loop
lk_accept ==
    /\ lk_pc[MainThread] = "accept"
    /\ \/ \E c \in Conns :
             /\ lk_pc[c] = "none"
             /\ \A d \in Conns : d < c => lk_pc[d] # "none"
             /\ new_socket' = c
             /\ lk_pc' = [lk_pc EXCEPT ![MainThread] = "lock_admit"]
       \/ /\ lk_pc' = [lk_pc EXCEPT ![MainThread] = "loop"]
          /\ UNCHANGED new_socket
    /\ UNCHANGED <<running, num_active_clients, clients_mutex>>
    /\ UNCHANGED <<lockRest, zcVars, echoVars, msgVars, clientVars, forkVars>>

\* pthread_mutex_lock(&clients_mutex), lines 117, 196, 211 and 229: the
\* caller goes on once no thread holds the mutex
pthread_mutex_lock(t) ==
    /\ lk_pc[t] \in DOMAIN AfterLock
    /\ clients_mutex = Unlocked
    /\ clients_mutex' = t
    /\ lk_pc' = [lk_pc EXCEPT ![t] = AfterLock[lk_pc[t]]]
    /\ UNCHANGED <<running, num_active_clients, new_socket>>
    /\ UNCHANGED <<lockRest, zcVars, echoVars, msgVars, clientVars, forkVars>>

\* pthread_mutex_unlock(&clients_mutex), lines 119, 198, 204, 213 and 231;
\* after the rejection main closes the connection (line 200)
pthread_mutex_unlock(t) ==
    /\ lk_pc[t] \in DOMAIN AfterUnlock(t)
    /\ clients_mutex' = Unlocked
    /\ lk_pc' = [lk_pc EXCEPT ![t] = AfterUnlock(t)[lk_pc[t]]]
    /\ new_socket' = IF lk_pc[t] = "unlock_admit" THEN new_socket ELSE
                     IF t = MainThread THEN 0 ELSE new_socket
    /\ UNCHANGED <<running, num_active_clients>>
    /\ UNCHANGED <<lockRest, zcVars, echoVars, msgVars, clientVars, forkVars>>

\* if (num_active_clients >= max_threads), line 197
lk_admit_test ==
    /\ lk_pc[MainThread] = "admit_test"
    /\ lk_pc' = [lk_pc EXCEPT ![MainThread] =
                    IF AtCapacity THEN "unlock_reject" ELSE "increment"]
    /\ UNCHANGED <<running, num_active_clients, new_socket, clients_mutex>>
    /\ UNCHANGED <<lockRest, zcVars, echoVars, msgVars, clientVars, forkVars>>

\* num_active_clients++, line 203
lk_increment ==
    /\ lk_pc[MainThread] = "increment"
    /\ num_active_clients' = num_active_clients + 1
    /\ lk_pc' = [lk_pc EXCEPT ![MainThread] = "unlock_admit"]
    /\ UNCHANGED <<running, new_socket, clients_mutex>>
    /\ UNCHANGED <<lockRest, zcVars, echoVars, msgVars, clientVars, forkVars>>

\* the context and the thread of the admitted connection, lines 207-236:
\* the thread starts, or malloc or pthread_create fails and main closes
\* the connection and goes to give the slot back
lk_spawn ==
    /\ lk_pc[MainThread] = "spawn"
    /\ \E ok \in BOOLEAN :
          IF ok
             THEN /\ lk_pc' = [lk_pc EXCEPT ![MainThread] = "loop", ![new_socket] = "run"]
                  /\ new_socket' = 0
             ELSE /\ lk_pc' = [lk_pc EXCEPT ![MainThread] = "lock_giveback"]
                  /\ UNCHANGED new_socket
    /\ UNCHANGED <<running, num_active_clients, clients_mutex>>
    /\ UNCHANGED <<lockRest, zcVars, echoVars, msgVars, clientVars, forkVars>>

\* handle_client up to its epilogue, lines 34-114: the session ends (peer
\* close, error, shutdown flag) and frees what it holds
lk_session_end(c) ==
    /\ lk_pc[c] = "run"
    /\ lk_pc' = [lk_pc EXCEPT ![c] = "lock_giveback"]
    /\ UNCHANGED <<running, num_active_clients, new_socket, clients_mutex>>
    /\ UNCHANGED <<lockRest, zcVars, echoVars, msgVars, clientVars, forkVars>>

\* num_active_clients--, lines 118, 212 and 230
lk_decrement(t) ==
    /\ lk_pc[t] = "giveback"
    /\ num_active_clients' = num_active_clients - 1
    /\ lk_pc' = [lk_pc EXCEPT ![t] = "unlock_giveback"]
    /\ UNCHANGED <<running, new_socket, clients_mutex>>
    /\ UNCHANGED <<lockRest, zcVars, echoVars, msgVars, clientVars, forkVars>>

\* while (num_active_clients > 0) usleep(100000), line 243: the counter is
\* read with no lock taken; a positive value sleeps and reads again
lk_wait ==
    /\ lk_pc[MainThread] = "wait"
    /\ ~ (num_active_clients > 0)
    /\ lk_pc' = [lk_pc EXCEPT ![MainThread] = "done"]
    /\ UNCHANGED <<running, num_active_clients, new_socket, clients_mutex>>
    /\ UNCHANGED <<lockRest, zcVars, echoVars, msgVars, clientVars, forkVars>>

LockNext ==
    \/ signal_handler
    \/ lk_loop_test
    \/ lk_accept
    \/ \E t \in Threads : pthread_mutex_lock(t)
    \/ \E t \in Threads : pthread_mutex_unlock(t)
    \/ lk_admit_test
    \/ lk_increment
    \/ lk_spawn
    \/ \E c \in Conns : lk_session_end(c)
    \/ \E t \in Threads : lk_decrement(t)
    \/ lk_wait

LockSpec == LockInit /\ [][LockNext]_vars

(***************************************************************************)
(* Program A: main of GRS_PA01/MT25091_Part_A_Program_A.c forks            *)
(* num_processes children, each of which runs one worker task and exits,   *)
(* and waits for them.                                                     *)
(***************************************************************************)
ChildStates == {"none", "running", "zombie", "reaped"}
ParentStates == {"none", "fork", "wait", "return_0", "return_1"}

\* main is at the fork loop of line 20; num_processes is atoi(argv[2]) or
\* the default 2 (lines 15-18): any integer, also 0 or a negative one
ForkInit ==
    /\ running = 1
    /\ max_threads = 1
    /\ num_active_clients = 0
    /\ client_id = 0
    /\ main_pc = "loop"
    /\ new_socket = 0
    /\ server_fd_open = TRUE
    /\ rcvtimeo_inherited = FALSE
    /\ sock = [c \in Conns |-> "none"]
    /\ peer = [c \in Conns |-> "idle"]
    /\ sess = [c \in Conns |-> "none"]
    /\ ZcIdle
    /\ EchoIdle
    /\ MsgIdle
    /\ ClientIdle
    /\ LockIdle
    /\ num_processes \in -1..MaxProcesses
    /\ pa_pc = "fork"
    /\ pa_i = 0
    /\ child = [k \in Children |-> "none"]

\* one turn of the loop of lines 20-40 as the parent runs it, or its end.
\* fork returns the pid of a new child, which takes the pid == 0 branch, or
\* fails (EAGAIN, ENOMEM), and then the parent returns 1 at line 25
fork ==
    /\ pa_pc = "fork"
    /\ IF pa_i < num_processes
          THEN \E pid \in {-1, 1} :
                  IF pid < 0
                     THEN /\ pa_pc' = "return_1"
                          /\ UNCHANGED <<pa_i, child>>
                     ELSE /\ child' = [child EXCEPT ![pa_i + 1] = "running"]
                          /\ pa_i' = pa_i + 1
                          /\ UNCHANGED pa_pc
          ELSE /\ pa_pc' = "wait"
               /\ pa_i' = 0
               /\ UNCHANGED child
    /\ UNCHANGED num_processes
    /\ UNCHANGED <<serverVars, zcVars, echoVars, msgVars, clientVars, lockVars>>

\* the child, lines 26-39: it runs its worker task, which is a bounded loop
\* (MT25091_Part_B_Workers.c), and calls exit(0), or exit(1) for an unknown
\* task type; it never returns to the loop of line 20. A terminated child
\* stays a zombie until the parent waits for it
child_exit(k) ==
    /\ child[k] = "running"
    /\ child' = [child EXCEPT ![k] = "zombie"]
    /\ UNCHANGED <<num_processes, pa_pc, pa_i>>
    /\ UNCHANGED <<serverVars, zcVars, echoVars, msgVars, clientVars, lockVars>>

\* one turn of the loop of lines 43-45, or its end and the return of line
\* 47. wait(NULL) returns the pid of a terminated child, which is reaped;
\* it blocks while children exist and none has terminated; it fails at
\* once (ECHILD) when the parent has no child left to wait for. The result
\* is not looked at
wait ==
    /\ pa_pc = "wait"
    /\ IF pa_i < num_processes
          THEN /\ \/ \E k \in Children :
                        /\ child[k] = "zombie"
                        /\ child' = [child EXCEPT ![k] = "reaped"]
                  \/ /\ \A k \in Children : child[k] \in {"none", "reaped"}
                     /\ UNCHANGED child
               /\ pa_i' = pa_i + 1
               /\ UNCHANGED pa_pc
          ELSE /\ pa_pc' = "return_0"
               /\ UNCHANGED <<pa_i, child>>
    /\ UNCHANGED num_processes
    /\ UNCHANGED <<serverVars, zcVars, echoVars, msgVars, clientVars, lockVars>>

ForkNext ==
    \/ fork
    \/ \E k \in Children : child_exit(k)
    \/ wait

ForkSpec == ForkInit /\ [][ForkNext]_vars

(***************************************************************************)
(* Properties of the server.                                               *)
(***************************************************************************)
\* C1: admission control: num_active_clients never exceeds max_threads, and
\* no more than max_threads handle_client sessions run at the same time,
\* whatever the order of arrivals, session exits and allocation or thread
\* creation failures.
C1_AdmissionBound ==
    /\ num_active_clients <= max_threads
    /\ Cardinality(RunningSessions) <= max_threads

\* a connection has been turned away while two sessions fill max_threads = 2
C1_Witness ==
    /\ max_threads = 2
    /\ Cardinality(RunningSessions) = 2
    /\ num_active_clients = 2
    /\ main_pc = "loop"
    /\ \E c \in Conns : sock[c] = "closed" /\ sess[c] = "none"

\* C5: main returns only when no handle_client session is still running.
C5_NoSessionAbandoned == main_pc = "done" => RunningSessions = {}

\* main has returned after sessions were admitted and have finished
C5_Witness ==
    /\ main_pc = "done"
    /\ \E c \in Conns : sess[c] = "done"
    /\ \E c \in Conns : sess[c] = "done" /\ peer[c] # "closed"

\* C6: once the shutdown signal has cleared the running flag, the accept
\* loop is eventually left and the active-session count eventually reaches
\* 0, also when a session's peer is connected and idle (unless the process
\* has ended before: a failed startup or a fault).
C6_ShutdownCompletes ==
    (running = 0) ~> \/ main_pc \in {"shutdown", "wait", "done"} /\ num_active_clients = 0
                     \/ main_pc \in {"exit_failure", "crashed"}

\* C12: a connection accepted while num_active_clients >= max_threads is
\* closed at once, no session is spawned for it, num_active_clients is left
\* unchanged and main continues the accept loop; the connection is not
\* queued: once closed it stays closed and never gets a session.
C12_RejectedNotQueued ==
    [][ /\ (main_pc = "admit" /\ num_active_clients >= max_threads
                               /\ main_pc' # main_pc) =>
              /\ sock'[new_socket] = "closed"
              /\ sess' = sess
              /\ num_active_clients' = num_active_clients
              /\ main_pc' = "loop"
              /\ new_socket' = 0
        /\ \A c \in Conns :
              (sock[c] = "closed" /\ sess[c] = "none") =>
                  (sock'[c] = "closed" /\ sess'[c] = "none")
      ]_vars

\* a connection has been rejected at capacity and main is accepting again
\* while the session that filled the server still runs
C12_Witness ==
    /\ max_threads = 1
    /\ num_active_clients = 1
    /\ main_pc = "accept"
    /\ new_socket = 0
    /\ \E c \in Conns : sock[c] = "closed" /\ sess[c] = "none"
    /\ \E c \in Conns : sess[c] = "recv"

\* the server process exists
ProcessAlive == main_pc # "crashed"

\* admitted connections whose session has not finished: the running
\* sessions and the connection main holds between admission and thread start
AdmittedUnfinished ==
    Cardinality(RunningSessions) + (IF main_pc \in {"alloc_ctx", "create"} THEN 1 ELSE 0)

\* C13: while the server runs, num_active_clients is non-negative and
\* equals the number of admitted connections whose session has not yet
\* finished; it is incremented only by the admission of a connection and
\* decremented only by one, either at the end of that connection's
\* handle_client or on main's context-allocation / pthread_create failure
\* path, never both.
C13_CountMatchesSessions ==
    /\ [](ProcessAlive =>
            /\ num_active_clients >= 0
            /\ num_active_clients = AdmittedUnfinished)
    /\ [][ /\ num_active_clients' > num_active_clients =>
                 /\ num_active_clients' = num_active_clients + 1
                 /\ main_pc = "admit" /\ main_pc' = "alloc_ctx"
                 /\ sess' = sess
           /\ num_active_clients' < num_active_clients =>
                 /\ num_active_clients' = num_active_clients - 1
                 /\ LET ended == {c \in Conns : sess[c] = "cleanup" /\ sess'[c] = "done"}
                        failed == main_pc \in {"alloc_ctx", "create"} /\ main_pc' = "loop"
                                     /\ sess'[new_socket] = "none"
                    IN  \/ Cardinality(ended) = 1 /\ ~failed
                        \/ ended = {} /\ failed
           /\ \A c \in Conns :
                 (sess[c] = "cleanup" /\ sess'[c] = "done") =>
                     num_active_clients' = num_active_clients - 1
           /\ \A c \in Conns : sess[c] = "done" => sess'[c] = "done"
        ]_vars

\* two admitted connections are counted, one with a running session and
\* one between admission and thread start, after an earlier session ended
C13_Witness ==
    /\ num_active_clients = 2
    /\ main_pc = "create"
    /\ Cardinality(RunningSessions) = 1
    /\ \E c \in Conns : sess[c] = "done"

\* C14: a session-local failure (an allocation failure at the start of
\* the session, a peer close or reset, a broken pipe) terminates only that
\* session: the step that detects it and the cleanup that follows move
\* nothing but the session itself, the cleanup closes the session's socket
\* and gives its slot back once, and after the session has ended the
\* accept loop and the other sessions go on: the process is not brought
\* down.
C14_FailureIsSessionLocal ==
    [][ \A c \in Conns :
          /\ (sess[c] \in {"start", "recv", "send"} /\ sess'[c] = "cleanup") =>
                /\ \A d \in Conns \ {c} : sess'[d] = sess[d] /\ sock'[d] = sock[d]
                /\ UNCHANGED <<main_pc, running, server_fd_open, num_active_clients>>
          /\ (sess[c] = "cleanup" /\ sess'[c] # "cleanup") =>
                /\ sess'[c] = "done"
                /\ sock'[c] = "closed"
                /\ num_active_clients' = num_active_clients - 1
                /\ \A d \in Conns \ {c} : sess'[d] = sess[d] /\ sock'[d] = sock[d]
                /\ UNCHANGED <<main_pc, running, server_fd_open>>
          /\ sess[c] = "done" =>
                /\ main_pc' # "crashed"
                /\ \A d \in Conns : sess'[d] # "killed"
      ]_vars

\* C15 as stated: after the shutdown signal there is no state in which the
\* active-session count is 0 while the listening socket is still open.
C15_ClosedBeforeCountZero ==
    running = 0 => ~ (num_active_clients = 0 /\ Listening)

\* C15 amended: after the shutdown signal main closes the listening socket
\* before it starts to wait for the active-session count to reach 0: the
\* listening socket is closed in every state in which main waits for the
\* count or has returned, and once closed it stays closed.
C15_ClosedBeforeWait ==
    /\ [](main_pc \in {"wait", "done"} => (running = 0 /\ ~server_fd_open))
    /\ [][(~server_fd_open /\ main_pc # "socket") => ~server_fd_open']_vars

\* main waits for a session that is still active, the listening socket closed
C15_Witness ==
    /\ running = 0
    /\ main_pc = "wait"
    /\ num_active_clients > 0
    /\ ~server_fd_open

\* C22: when socket creation or option setting in create_tcp_socket, bind
\* or listen fails, the next thing main does is exit with EXIT_FAILURE, and
\* nothing else; at that exit no connection has been accepted and no session
\* spawned, and none is afterwards.
C22_FatalStartupFailure ==
    /\ [](main_pc \in FailedCalls \cup {"exit_failure"} =>
            /\ \A c \in Conns : sess[c] = "none" /\ sock[c] = "none"
            /\ num_active_clients = 0
            /\ client_id = 0
            /\ new_socket = 0)
    /\ [][ /\ (main_pc \in FailedCalls /\ main_pc' # main_pc) =>
                 /\ main_pc' = "exit_failure"
                 /\ ~server_fd_open'
           /\ main_pc = "exit_failure" => main_pc' = "exit_failure"
           /\ (main_pc \in {"socket", "bind", "listen"} /\ main_pc' # main_pc) =>
                 /\ sess' = sess /\ sock' = sock
                 /\ main_pc = "socket" => main_pc' \in {"bind", "socket_failed"}
                 /\ main_pc = "bind" => main_pc' \in {"listen", "bind_failed"}
                 /\ main_pc = "listen" => main_pc' \in {"loop", "listen_failed"}
        ]_vars

\* the process has exited with EXIT_FAILURE after socket creation had
\* succeeded: bind or listen failed
C22_Witness ==
    /\ main_pc = "exit_failure"
    /\ ~server_fd_open
    /\ running = 1

\* C24: when the recv of a session returns because its receive timeout
\* expired with nothing received (the peer is connected and has sent
\* nothing) and the shutdown flag is not set, the session stays alive: it
\* goes back to the head of its loop to receive again.
C24_TimeoutKeepsSession ==
    [][ \A c \in Conns :
          (/\ sess[c] = "recv" /\ peer[c] = "idle" /\ running # 0
           /\ sess'[c] # "recv" /\ main_pc' # "crashed") =>
              sess'[c] = "top"
      ]_vars

\* C25: once the shutdown flag is 0 no further connection is admitted: in
\* no step taken with running = 0 is num_active_clients incremented or a
\* session thread started, also for a connection that accept returns, or
\* has returned, when the flag is cleared.
C25_NoAdmissionAfterShutdown ==
    [][ running = 0 =>
          /\ num_active_clients' <= num_active_clients
          /\ \A c \in Conns : sess[c] = "none" => sess'[c] = "none"
      ]_vars

\* C28: the running flag is monotonic and the configuration frozen: the
\* only change of running is from 1 to 0, made by the signal handler in a
\* step that changes nothing else of the server, so that running never
\* becomes 1 again; max_threads never changes.
C28_RunningMonotonic ==
    /\ [](running \in {0, 1})
    /\ [][ /\ running' # running =>
                 /\ running = 1 /\ running' = 0
                 /\ UNCHANGED <<max_threads, num_active_clients, client_id, main_pc,
                                new_socket, server_fd_open, sock, peer, sess>>
           /\ running = 0 => running' = 0
           /\ max_threads' = max_threads
        ]_vars

\* the flag was cleared while two sessions were served; main is waiting
\* for the one that is left and is about to test the flag
C28_Witness ==
    /\ running = 0
    /\ max_threads = 2
    /\ main_pc = "wait"
    /\ num_active_clients = 1
    /\ \E c \in Conns : sess[c] = "top"
    /\ \E c \in Conns : sess[c] = "done"

\* C31: main never reads or writes the ClientContext of a session after
\* the session thread has freed it: whenever main is about to evaluate
\* ctx->client_id for pthread_detach (line 236), which is its last access
\* to ctx, the handle_client that owns ctx has not yet run its free(ctx).
C31_NoAccessAfterFree == main_pc = "detach" => ~ctx_freed

\* main holds connection c between accept and the end of its iteration
MainHolds(c) == new_socket = c /\ main_pc \in {"admit", "alloc_ctx", "create", "detach"}

\* a step in which main closes connection c and goes on with the loop: the
\* rejection, the context-allocation failure or the pthread_create failure
MainCloses(c) ==
    /\ new_socket = c
    /\ main_pc \in {"admit", "alloc_ctx", "create"}
    /\ main_pc' = "loop"

\* a step in which the session of connection c runs its cleanup
SessionCloses(c) == sess[c] = "cleanup" /\ sess'[c] = "done"

\* C35: while the server runs, every accepted connection socket is closed
\* exactly once: an open socket is held by main or by its running session;
\* main closes it on the rejection, context-allocation failure and
\* pthread_create failure paths, for which no session ever runs; otherwise
\* its session closes it in its cleanup; each closing step acts on a socket
\* that is open, a closed socket stays closed, and the socket of a session
\* that has ended is closed.
C35_SocketClosedOnce ==
    /\ [](ProcessAlive =>
            \A c \in Conns :
               /\ sock[c] = "open" => (MainHolds(c) \/ SessionRunning(c))
               /\ SessionRunning(c) => sock[c] = "open"
               /\ sess[c] = "done" => sock[c] = "closed"
               /\ (sock[c] = "closed" /\ sess[c] = "none") => ~MainHolds(c))
    /\ [][ main_pc' # "crashed" =>
             \A c \in Conns :
                /\ sock[c] = "closed" => (sock'[c] = "closed" /\ ~MainCloses(c) /\ ~SessionCloses(c))
                /\ (sock[c] = "open" /\ sock'[c] = "closed") =>
                      \/ MainCloses(c) /\ ~SessionCloses(c) /\ sess[c] = "none" /\ sess'[c] = "none"
                      \/ SessionCloses(c) /\ ~MainCloses(c)
                /\ (MainCloses(c) \/ SessionCloses(c)) => (sock[c] = "open" /\ sock'[c] = "closed")
                /\ (sock[c] = "closed" /\ sess[c] = "none") => sess'[c] = "none"
        ]_vars

\* with one slot, one connection was served and closed by its session and
\* another was rejected and closed by main, while a third is being served
C35_Witness ==
    /\ ProcessAlive
    /\ \E c \in Conns : sock[c] = "closed" /\ sess[c] = "done"
    /\ \E c \in Conns : sock[c] = "closed" /\ sess[c] = "none"
    /\ \E c \in Conns : sock[c] = "open" /\ sess[c] = "send"

\* the statements that read or write num_active_clients: the admission
\* test and the increment, the decrement, and the test of the shutdown wait
CounterAccess == {"admit_test", "increment", "giveback", "wait"}

\* C23: every read and every write of num_active_clients, by the accept
\* loop, by the session threads and by the shutdown wait of main, is done
\* by a thread that holds clients_mutex.
C23_CounterUnderMutex ==
    [][ \A t \in Threads :
          (lk_pc[t] \in CounterAccess /\ lk_pc'[t] # lk_pc[t]) => clients_mutex = t
      ]_vars

(***************************************************************************)
(* Properties of the zero-copy session.                                    *)
(***************************************************************************)
\* C2: the message buffers are released by free_message only when
\* pending_completions is 0, on every path out of the communication loop.
C2_FreedOnlyWhenDrained == zc_msg = "freed" => pending_completions = 0

\* C3: pending_completions never exceeds the watermark max_pending, for
\* every sequence of receives, sends and completion-channel outcomes.
C3_WatermarkBound == pending_completions <= max_pending

\* C4: a response rejected with ENOBUFS is submitted again, so that
\* whenever the session is back at the head of its loop every request it
\* has received has been answered by exactly one response.
C4_EveryRequestAnswered ==
    zc_pc \in {"top", "poll", "recv"} =>
        zc_ctx.messages_sent = zc_ctx.messages_received

\* C20: the message buffer is not submitted for a new zero-copy send and
\* not freed while an earlier zero-copy send of it is still pending, that
\* is while the kernel still references its pages or the completion
\* notification is queued and has not been read (the session never writes
\* to the buffer after allocate_message).
C20_BufferIdleWhenReused ==
    [][ (\/ zc_ctx'.messages_sent > zc_ctx.messages_sent
         \/ (zc_msg = "allocated" /\ zc_msg' = "freed")) =>
            (kern_inflight = 0 /\ errq = 0)
      ]_vars

\* C21: pending_completions is never negative; it is decremented only by
\* one, in a step in which handle_zerocopy_completion returned 1 (a
\* notification was taken from the error queue) while a send was still
\* counted as outstanding; and no completion is counted for a send that was
\* not registered: every send the kernel still holds or has reported and
\* not yet had read is counted in pending_completions.
C21_CompletionMonotonic ==
    /\ [](/\ pending_completions >= 0
          /\ pending_completions >= kern_inflight + errq)
    /\ [][ pending_completions' < pending_completions =>
              /\ pending_completions' = pending_completions - 1
              /\ pending_completions > 0
              /\ errq > 0
              /\ errq' = errq - 1
              /\ zc_pc \in {"poll", "wait", "drain"}
         ]_vars

\* two responses were sent zero-copy and both completions have been counted
C21_Witness ==
    /\ zc_enabled
    /\ zc_ctx.messages_sent = 2
    /\ pending_completions = 0
    /\ kern_inflight = 0
    /\ errq = 0
    /\ zc_pc = "recv"

\* C26: a sendmsg(MSG_ZEROCOPY) rejected with ENOBUFS is not a session
\* failure: the rejection and the branch that handles it leave bytes_sent,
\* messages_sent and the other statistics as they are, free nothing, do not
\* end the session or close its connection, and take the session back to
\* the head of its loop.
C26_EnobufsNotAFailure ==
    [][ /\ (zc_pc = "send" /\ zc_pc' = "enobufs") =>
              /\ zc_ctx' = zc_ctx
              /\ zc_msg' = zc_msg
              /\ pending_completions' = pending_completions
              /\ num_active_clients' = num_active_clients
        /\ (zc_pc = "enobufs" /\ zc_pc' # "enobufs") =>
              /\ zc_pc' = "top"
              /\ zc_ctx' = zc_ctx
              /\ zc_msg' = zc_msg
              /\ num_active_clients' = num_active_clients
      ]_vars

\* a response was rejected with ENOBUFS and the session is in its loop
\* again, about to receive the next request
C26_Witness ==
    /\ zc_pc = "recv"
    /\ running = 1
    /\ zc_msg = "allocated"
    /\ zc_ctx.messages_received = 2
    /\ zc_ctx.messages_sent = 1
    /\ zc_ctx.bytes_sent = zc_total_size

\* C29: pending_completions, 0 at the start, is the number of successful
\* zero-copy sends minus the number of notifications
\* handle_zerocopy_completion has taken from the error queue: every step
\* that counts a send raises it by one, every step that takes a
\* notification from the queue lowers it by one, on the ENOBUFS path too,
\* and no other step changes it, so that the equality holds whenever the
\* session is at the head of its loop.
C29_PendingIsSendsMinusConsumed ==
    [][ /\ zc_ctx'.messages_sent # zc_ctx.messages_sent =>
              /\ zc_ctx'.messages_sent = zc_ctx.messages_sent + 1
              /\ pending_completions' = pending_completions + 1
        /\ errq' < errq =>
              /\ errq' = errq - 1
              /\ pending_completions' = pending_completions - 1
        /\ pending_completions' # pending_completions =>
              \/ zc_ctx'.messages_sent # zc_ctx.messages_sent
              \/ errq' < errq
      ]_vars

\* C30: a session that is in the watermark wait when the shutdown flag is
\* set eventually leaves the wait and ends, also when no further completion
\* notification arrives on the error queue.
C30_WaitObservesShutdown ==
    (running = 0 /\ zc_pc = "wait") ~> (zc_pc = "done")

(***************************************************************************)
(* Properties of the client-server pair.                                   *)
(***************************************************************************)
\* C7: echo invariant: when the client has completed N exchanges (none of
\* them cut off by cancellation), the bytes it has sent equal the bytes the
\* server has received, the bytes the server has sent equal the bytes the
\* client has received, and each is N x (per_segment_size x 8), however
\* the stream splits the messages.
C7_EchoInvariant ==
    (cl_pc = "top" /\ cl_running # 0) =>
        LET N == cl_ctx.messages_received
        IN  /\ cl_ctx.bytes_sent = sv_ctx.bytes_received
            /\ sv_ctx.bytes_sent = cl_ctx.bytes_received
            /\ cl_ctx.bytes_sent = N * buffer_size
            /\ cl_ctx.bytes_received = N * buffer_size

\* C9: the server session counts a request and sends a response only for
\* a request whose per_segment_size x 8 bytes have all been received.
C9_ResponsePerCompleteRequest ==
    /\ sv_ctx.messages_received * buffer_size <= sv_ctx.bytes_received
    /\ sv_ctx.messages_sent * buffer_size <= sv_ctx.bytes_received

\* C10: in the client and in the server session, every submission counted
\* in messages_sent has had all its per_segment_size x 8 bytes accepted by
\* the transport.
C10_CountedSendIsComplete ==
    /\ cl_ctx.bytes_sent = cl_ctx.messages_sent * buffer_size
    /\ sv_ctx.bytes_sent = sv_ctx.messages_sent * buffer_size

\* C11: the client session counts an exchange as received only when the
\* full echo of per_segment_size x 8 bytes has been received for it, also
\* when the cancellation flag is set in the middle of receiving the echo.
C11_CountedEchoIsComplete ==
    cl_ctx.bytes_received = cl_ctx.messages_received * buffer_size

\* C32: in every state of a client session the counters satisfy
\* messages_received <= messages_sent <= messages_received + 1: at most one
\* request is outstanding, no echo is counted without a counted send, and
\* the two counters differ exactly while the session is past a counted
\* send and has not yet counted its echo.
C32_OneOutstandingRequest ==
    /\ cl_ctx.messages_received <= cl_ctx.messages_sent
    /\ cl_ctx.messages_sent <= cl_ctx.messages_received + 1
    /\ cl_pc \in {"start", "top", "send"} => cl_ctx.messages_sent = cl_ctx.messages_received
    /\ cl_pc = "recv" => cl_ctx.messages_sent = cl_ctx.messages_received + 1

\* the client has counted one echo and its second request, whose echo has
\* arrived in part
C32_Witness ==
    /\ cl_pc = "recv"
    /\ cl_ctx.messages_received = 1
    /\ cl_ctx.messages_sent = 2
    /\ total_recv > 0
    /\ total_recv < buffer_size

\* the client is blocked in the recv of its receive loop: the echo is not
\* complete, nothing of it is in flight and the server has not closed
ClientBlockedInRecv ==
    /\ cl_pc = "recv"
    /\ total_recv < buffer_size
    /\ cl_running # 0
    /\ s2c = 0
    /\ sv_open

\* the server session is blocked in its recv: nothing is in flight towards
\* it, the client has not closed and the socket carries no receive timeout
ServerBlockedInRecv ==
    /\ sv_pc = "recv"
    /\ c2s = 0
    /\ cl_open
    /\ ~rcvtimeo_inherited

\* C33: a client session and the server session that serves it never
\* deadlock: in no reachable state are both blocked in recv on their
\* connection with no bytes in flight in either direction and neither side
\* closed.
C33_NoDeadlock == ~ (ClientBlockedInRecv /\ ServerBlockedInRecv)

(***************************************************************************)
(* Properties of the load generator.                                       *)
(***************************************************************************)
\* the sessions main has joined
JoinedSessions == {i \in Slots : contexts[i] = "freed"}

RECURSIVE SetSum(_, _)
SetSum(f, S) ==
    IF S = {} THEN 0
    ELSE LET x == CHOOSE y \in S : TRUE IN f[x] + SetSum(f, S \ {x})

\* completed round trips, accumulated latency and bytes of the joined sessions
CompletedRoundTrips == SetSum([i \in Slots |-> ct_ctx[i].messages_received], JoinedSessions)
AccumulatedLatency == SetSum([i \in Slots |-> ct_ctx[i].total_latency_us], JoinedSessions)
BytesMoved ==
    SetSum([i \in Slots |-> ct_ctx[i].bytes_sent + ct_ctx[i].bytes_received], JoinedSessions)

\* C16: the reported average latency is the accumulated latency of all
\* joined sessions divided by the number of completed round trips
\* (exchanges whose echo was received), also in runs in which a session's
\* last send succeeded and its echo was never received.
C16_AverageOverCompleted ==
    summary.printed = "statistics" =>
        /\ summary.avg_latency_us[1] = AccumulatedLatency
        /\ summary.avg_latency_us[2] = CompletedRoundTrips

\* every request of every joined session was sent whole and echoed whole
AllExchangesComplete ==
    \A i \in JoinedSessions :
        /\ ct_ctx[i].messages_sent = ct_ctx[i].messages_received
        /\ ct_ctx[i].bytes_sent = ct_ctx[i].messages_sent * buffer_size
        /\ ct_ctx[i].bytes_received = ct_ctx[i].messages_received * buffer_size

\* C17: the reported throughput is (sum over the joined sessions of
\* bytes_sent + bytes_received) x 8 divided by (duration x 10^9); for a run
\* of M complete exchanges of S bytes it is M x S x 2 x 8 over
\* duration x 10^9, and M = 100, S = 1024, duration = 1 gives 1638400 bits
\* over 10^9.
C17_ThroughputFormula ==
    /\ ThroughputBits(100 * 1024, 100 * 1024) = 1638400
    /\ ThroughputDivisor(1) = 1000000000
    /\ summary.printed = "statistics" =>
          /\ summary.throughput_gbps[1] = BytesMoved * 8
          /\ summary.throughput_gbps[2] = duration * 1000000000
          /\ AllExchangesComplete =>
                summary.throughput_gbps[1] = CompletedRoundTrips * buffer_size * 2 * 8

\* the summary of a run of two sessions and two complete exchanges of 8
\* bytes with -d 2: 256 bits over 2 x 10^9
C17_Witness ==
    /\ summary.printed = "statistics"
    /\ Cardinality(JoinedSessions) = 2
    /\ AllExchangesComplete
    /\ CompletedRoundTrips = 2
    /\ duration = 2
    /\ summary.throughput_gbps = <<256, 2000000000>>

\* C27: the counters of a client session are written only in steps of that
\* session's own thread, which touch no other session's counters and none of
\* main's variables; main adds a session's counters to its totals only
\* after the thread of that session has terminated, and from then on they
\* no longer change; the summary is computed once, after every created
\* session has been joined.
C27_CountersReadAfterJoin ==
    [][ /\ \A i \in Slots :
              ct_ctx'[i] # ct_ctx[i] =>
                  /\ ct_pc[i] \in {"top", "recv"}
                  /\ \A j \in Slots \ {i} : ct_ctx'[j] = ct_ctx[j]
                  /\ UNCHANGED <<cm_pc, cm_i, contexts, totals, summary>>
        /\ totals' # totals =>
              /\ cm_pc = "join"
              /\ contexts[cm_i] = "ctx"
              /\ ct_pc[cm_i] = "done"
              /\ totals' = Accumulate(totals, ct_ctx[cm_i])
              /\ ct_ctx' = ct_ctx
        /\ \A i \in Slots : ct_pc[i] = "done" => ct_ctx'[i] = ct_ctx[i]
        /\ summary' # summary =>
              /\ cm_pc = "summary"
              /\ summary.printed = "nothing"
              /\ \A i \in Slots : contexts[i] # "ctx" /\ ct_pc[i] \in {"none", "done"}
              /\ totals' = totals
      ]_vars

\* main has printed the statistics of two joined sessions, one of which
\* completed two round trips and the other one
C27_Witness ==
    /\ cm_pc = "done"
    /\ summary.printed = "statistics"
    /\ totals.active_threads = 2
    /\ \A i \in Slots : contexts[i] = "freed" /\ ct_pc[i] = "done"
    /\ \E i, j \in Slots : ct_ctx[i].messages_received = 2 /\ ct_ctx[j].messages_received = 1
    /\ totals.total_latency = SetSum([i \in Slots |-> ct_ctx[i].total_latency_us], Slots)

\* C34: when the join loop runs, the slot contexts[i] of every index whose
\* setup failed (no thread was created for it) is null, so that the index
\* is not joined, and the process does not fault on it.
C34_FailedSlotsNull ==
    /\ cm_pc # "crashed"
    /\ cm_pc = "join" =>
          \A i \in 1..threads : ct_pc[i] = "none" => contexts[i] = "null"

(***************************************************************************)
(* Properties of Program A.                                                *)
(***************************************************************************)
\* the parent has returned from main
ParentReturned == pa_pc \in {"return_0", "return_1"}

\* C36: the parent of Program A returns only after every child it has
\* created has terminated, for every num_processes and every outcome of
\* fork, a fork failure after some children were created included.
C36_ParentOutlivesChildren ==
    ParentReturned => \A k \in Children : child[k] # "running"

(***************************************************************************)
(* Properties of the message helpers.                                      *)
(***************************************************************************)
\* C18: allocate_message is atomic: it returns a message whose header and
\* 8 segments are all allocated, or it returns NULL with the header and
\* every segment allocated before the failing one released, whichever
\* segment i of 0..7 fails.
C18_AllOrNothing ==
    /\ am_pc = "null" => (~am_header /\ am_fields = 0)
    /\ am_pc \in {"allocated", "serialized", "serialize_null"} =>
          (am_header /\ am_fields = NUM_STRING_FIELDS)

\* NULL has been returned after the malloc of the last segment failed
C18_Witness ==
    /\ am_pc = "null"
    /\ am_i = NUM_STRING_FIELDS - 1
    /\ am_fields = 0
    /\ ~am_header

\* C19: the bytes one scatter-gather submission puts on the stream (the 8
\* iovec entries field[0..7], per_segment_size bytes each, in order) are
\* the contiguous buffer serialize_message produces for the same message,
\* per_segment_size x 8 bytes; a short write puts the first bytes of that
\* buffer on the stream.
C19_GatherEqualsSerialized ==
    /\ am_pc = "sent_iov" =>
          /\ wire = SerializedBuffer(msg_size)
          /\ Len(wire) = PerFieldSize(msg_size) * 8
    /\ am_pc = "sent_iov_short" =>
          wire = SubSeq(SerializedBuffer(msg_size), 1, Len(wire))

\* a message of 3 bytes per segment has been sent whole: AAABBB...HHH
C19_Witness ==
    /\ am_pc = "sent_iov"
    /\ msg_size = 24
    /\ Len(wire) = 24
    /\ wire[1] = 65 /\ wire[3] = 65 /\ wire[4] = 66 /\ wire[24] = 72

MaxOf(a, b) == IF a >= b THEN a ELSE b

\* C8 as stated: for every requested size S, per_segment_size is
\* max(1, S / 8) and the effective total per_segment_size x 8 is at most S.
C8_TotalAtMostRequested ==
    am_pc \in {"serialized", "serialize_null"} =>
        /\ per_field_size = MaxOf(1, msg_size \div 8)
        /\ total_size = per_field_size * 8
        /\ total_size <= msg_size

\* C8 amended: per_segment_size is max(1, S / 8) and the effective total
\* is per_segment_size x 8, which is at most S when S >= 8 and is 8, more
\* than S, when S < 8.
C8_SegmentSizes ==
    /\ am_pc \notin {"idle", "entry", "null"} =>
          per_field_size = MaxOf(1, msg_size \div 8)
    /\ am_pc \in {"serialized", "serialize_null"} =>
          /\ total_size = per_field_size * 8
          /\ msg_size >= 8 => total_size <= msg_size /\ msg_size - total_size < 8
          /\ msg_size < 8 => total_size = 8

\* both cases have been computed: a size below 8 and a size that is rounded down
C8_Witness ==
    /\ am_pc = "serialized"
    /\ \/ msg_size = 7 /\ per_field_size = 1 /\ total_size = 8
       \/ msg_size = 1023 /\ per_field_size = 127 /\ total_size = 1016

====
